---- MODULE Spec2Model ----
(***************************************************************************)
(* The Call Floor: the tick-based call-centre simulation engine, its game  *)
(* state, lead pool, dialer manager, seeded random source and persistence. *)
(*                                                                         *)
(* Numbers.  JavaScript numbers are modelled in fixed point: a quantity of *)
(* the unit interval (a probability, a skill, fatigue, morale, a           *)
(* multiplier) is the integer nearest below value * Scale, and reputation  *)
(* is kept in the same scale (reputation * Scale / 100 would lose the -0.5 *)
(* step, so reputation is stored as reputation * RepScale).  Durations are *)
(* whole seconds, as Math.round makes them.  The wall clock (Date.now())   *)
(* is counted in hours instead of milliseconds.  32-bit words of the       *)
(* random source are pairs <<hi, lo>> of 16-bit halves, so that no         *)
(* intermediate value leaves the range of the model checker's integers.    *)
(***************************************************************************)
EXTENDS Integers, Sequences, FiniteSets, TLC

Scale == 100 * 100
RepScale == 5 * 2
Half == 256 * 256

\* the array holding the elements of f, in order (as Array.prototype.map builds it)
Array(f) == f \o <<>>

Min[a \in Int, b \in Int] == IF a < b THEN a ELSE b
Max[a \in Int, b \in Int] == IF a > b THEN a ELSE b

\* Formulas.clamp
clamp[value \in Int, lo \in Int, hi \in Int] == Min[Max[value, lo], hi]

\* a * b of two Scale-d quantities, again Scale-d (rounded down); computed in two
\* parts so that the intermediate product stays within TLC's integers
Mul[a \in Int, b \in Int] == (a \div Scale) * b + ((a % Scale) * b) \div Scale

\* Math.round of num / den for num >= 0, den > 0
RoundDiv[num \in Int, den \in Int] == (2 * num + den) \div (2 * den)

(***************************************************************************)
(* SeededRNG (mulberry32).                                                 *)
(***************************************************************************)
\* The operations on words are functions: an application computes its arguments
\* first, as the JavaScript expression does.
Halves == 0..(Half - 1)
Words == Halves \X Halves

\* bit k (a power of two) of x ^ y and of x | y, in place
XorBit(x, y, k) == (((x \div k) + (y \div k)) % 2) * k
OrBit(x, y, k) == IF (x \div k) % 2 = 1 \/ (y \div k) % 2 = 1 THEN k ELSE 0

\* the four bits from k upward
XorNibble(x, y, k) ==
    (XorBit(x, y, k) + XorBit(x, y, 2 * k)) + (XorBit(x, y, 4 * k) + XorBit(x, y, 8 * k))
OrNibble(x, y, k) ==
    (OrBit(x, y, k) + OrBit(x, y, 2 * k)) + (OrBit(x, y, 4 * k) + OrBit(x, y, 8 * k))

\* x ^ y and x | y on 16-bit halves
Xor16[x \in Halves, y \in Halves] ==
    (XorNibble(x, y, 1) + XorNibble(x, y, 16)) + (XorNibble(x, y, 256) + XorNibble(x, y, 4096))
Or16[x \in Halves, y \in Halves] ==
    (OrNibble(x, y, 1) + OrNibble(x, y, 16)) + (OrNibble(x, y, 256) + OrNibble(x, y, 4096))

Pow2(k) == IF k = 7 THEN 128 ELSE IF k = 14 THEN 16384 ELSE 32768

\* a ^ b on 32-bit words
Xor32[a \in Words, b \in Words] == <<Xor16[a[1], b[1]], Xor16[a[2], b[2]]>>

\* a | c for a small constant c (1 or 61)
Or32Small[a \in Words, c \in Halves] == <<a[1], Or16[a[2], c]>>

\* a >>> k for k in {7, 14, 15}
Shr32[a \in Words, k \in {7, 14, 15}] ==
    <<a[1] \div Pow2(k),
      (a[2] \div Pow2(k)) + (a[1] % Pow2(k)) * (Half \div Pow2(k))>>

\* (a + b) mod 2^32
Add32[a \in Words, b \in Words] ==
    <<(a[1] + b[1] + ((a[2] + b[2]) \div Half)) % Half, (a[2] + b[2]) % Half>>

\* (x * y) mod 2^16 for 16-bit x, y
MulMod16(x, y) == ((x % 256) * y + (((x \div 256) * y) % 256) * 256) % Half

\* Math.imul: the low 32 bits of a * b
Imul[a \in Words, b \in Words] ==
    LET p    == (a[2] \div 256) * b[2]
        lopt == (p % 256) * 256 + (a[2] % 256) * b[2]
        hi0  == (p \div 256) + (lopt \div Half)
        cross == MulMod16(a[1], b[2]) + MulMod16(a[2], b[1])
    IN  <<(hi0 + cross) % Half, lopt % Half>>

\* the constant 0x6D2B79F5
Mulberry == <<27947, 31221>>

\* new SeededRNG(seed): this.seed = seed; this.state = seed
NewRNG(seed) == [seed |-> seed, state |-> <<(seed \div Half) % Half, seed % Half>>]

\* a generator that adds the constant twice in a call of random()
RngAdvanceTwice(r) == [r EXCEPT !.state = Add32[Add32[r.state, Mulberry], Mulberry]]

\* the generator after one more call of random(): this.state += 0x6D2B79F5
RngAdvance(r) == [r EXCEPT !.state = Add32[r.state, Mulberry]]

\* t = Math.imul(t ^ t >>> 15, t | 1)
Mix1[t \in Words] == Imul[Xor32[t, Shr32[t, 15]], Or32Small[t, 1]]

\* t ^= t + Math.imul(t ^ t >>> 7, t | 61)
Mix2[t \in Words] == Xor32[t, Add32[t, Imul[Xor32[t, Shr32[t, 7]], Or32Small[t, 61]]]]

\* (t ^ t >>> 14) >>> 0
Mix3[t \in Words] == Xor32[t, Shr32[t, 14]]

\* the 32-bit word random() divides by 4294967296, taken after the advance
RngWord(r) == Mix3[Mix2[Mix1[RngAdvance(r).state]]]

\* Math.floor(w / 4294967296 * n) for a 32-bit word w and 0 < n <= 2^15
FloorOf(w, n) == (w[1] * n + ((w[2] * n) \div Half)) \div Half

\* Math.floor(random() * n) for 0 < n <= 2^15: the value of the next draw
\* in units of 1/n
RngFloor(r, n) == FloorOf(RngWord(r), n)

(***************************************************************************)
(* Configuration documents.  defaults: the document the engine test        *)
(* passes; dialers and lead sources: the catalog entries of the tests plus *)
(* one high-intent source, so that answers and conversions are frequent.   *)
(***************************************************************************)
TicksPerMinute == 6
TickSeconds == 10
BaseAHTSeconds == 180
BaseWrapUpSeconds == 30
BaseFatigueGainPerCallMinute == 100
BaseFatigueRecoveryPerMinute == 50
DialDurationSeconds == 10
BaseRevenuePerConversion == 120
WorkStartHour == 9
WorkEndHour == 17
WallUnitsPerDay == 24
DefaultMaxDialAttempts == 3
StartingCash == 500
StartingReputation == 75

Null == 0 - 1

Frac(n, d) == (n * Scale) \div d

\* new Dialer(config) for the 'manual' entry: every omitted field takes its default
ManualDialer ==
    [id |-> "manual", dialsPerMinutePerAgent |-> 6,
     connectRateMultiplier |-> Scale, qaAssistMultiplier |-> Scale,
     ahtReductionFactor |-> 0, abandonmentRate |-> 0,
     spamRiskMultiplier |-> Scale, costPerAgentPerDay |-> 0,
     unlockCost |-> 0, prerequisites |-> {}, unlocked |-> TRUE]

\* a predictive dialer entry: abandons calls, locked behind a cost
PredictiveDialer ==
    [id |-> "predictive", dialsPerMinutePerAgent |-> 12,
     connectRateMultiplier |-> Frac(11, 10), qaAssistMultiplier |-> Scale,
     ahtReductionFactor |-> 0, abandonmentRate |-> Frac(3, 10),
     spamRiskMultiplier |-> Frac(3, 2), costPerAgentPerDay |-> 10,
     unlockCost |-> 400, prerequisites |-> {"manual"}, unlocked |-> FALSE]

\* an AI-assisted dialer entry: the last tier, behind the predictive dialer
AIAssistedDialer ==
    [id |-> "ai_assisted", dialsPerMinutePerAgent |-> 12,
     connectRateMultiplier |-> Frac(12, 10), qaAssistMultiplier |-> Frac(12, 10),
     ahtReductionFactor |-> 0, abandonmentRate |-> 0,
     spamRiskMultiplier |-> Scale, costPerAgentPerDay |-> 20,
     unlockCost |-> 450, prerequisites |-> {"predictive"}, unlocked |-> FALSE]

DialerConfigs == <<ManualDialer, PredictiveDialer, AIAssistedDialer>>

\* new LeadSource(config): 'standard_leads' takes every default
StandardSource ==
    [id |-> "standard_leads", costPerLead |-> 25, intentMultiplier |-> Scale,
     freshnessDecayPerDay |-> Frac(1, 100), complianceRisk |-> Frac(1, 10),
     baseAnswerProbability |-> Frac(18, 100),
     baseConversionProbability |-> Frac(7, 100),
     unlockCost |-> 0, unlocked |-> TRUE]

\* a high-intent source whose leads answer and convert often
HotSource ==
    [id |-> "hot", costPerLead |-> 80, intentMultiplier |-> Frac(3, 2),
     freshnessDecayPerDay |-> Frac(5, 100), complianceRisk |-> Frac(4, 10),
     baseAnswerProbability |-> Frac(55, 100),
     baseConversionProbability |-> Frac(40, 100),
     unlockCost |-> 0, unlocked |-> TRUE]

\* a source behind an unlock cost: new LeadSource(config) leaves it locked
PremiumSource ==
    [id |-> "premium", costPerLead |-> 150, intentMultiplier |-> Frac(2, 1),
     freshnessDecayPerDay |-> Frac(2, 100), complianceRisk |-> Frac(5, 100),
     baseAnswerProbability |-> Frac(30, 100),
     baseConversionProbability |-> Frac(20, 100),
     unlockCost |-> 1000, unlocked |-> FALSE]

SourceConfigs == <<StandardSource, HotSource, PremiumSource>>

\* configs.defaults.training: the XP of a session, its cost and its length
TrainingConfig == [baseXPPerSession |-> 100, sessionCost |-> 50, sessionDurationMinutes |-> 1]

(***************************************************************************)
(* Formula library.                                                        *)
(***************************************************************************)
\* the largest r in lo..hi with r * r <= n (lo * lo <= n)
RootIn(n, lo, hi) == CHOOSE r \in lo..hi : r * r <= n /\ (r = hi \/ (r + 1) * (r + 1) > n)

\* Math.sqrt of a Scale-d quantity in [0, 1], Scale-d and rounded down: the
\* hundreds first, then the units
SqrtS(x) ==
    RootIn(x * Scale, 100 * RootIn(x, 0, 100), Min[Scale, 100 * RootIn(x, 0, 100) + 99])

RECURSIVE PowS(_, _)
\* Math.pow(b, k) for a Scale-d base and a natural exponent
PowS(b, k) == IF k = 0 THEN Scale ELSE Mul[PowS(b, k - 1), b]

\* Math.pow(clamp(fatigue, 0, 1), 2.5) * 0.5
calculateFatiguePenalty(fatigue) ==
    LET f == clamp[fatigue, 0, Scale]
    IN  Mul[Mul[Mul[f, f], SqrtS(f)], Scale \div 2]

calculateSpamTagProbability(reputation, dialVolume, dialerSpamMultiplier, spamReduction) ==
    LET baseSpam == Max[0, ((100 * RepScale - reputation) * Scale) \div (200 * RepScale)]
        volumeRatio == (dialVolume * Scale) \div 200
        volumeFactor == IF 2 * volumeRatio > 3 * Scale
                        THEN Scale + (volumeRatio - (3 * Scale) \div 2) \div 2
                        ELSE Scale
        probability == Mul[Mul[Mul[baseSpam, dialerSpamMultiplier], volumeFactor],
                           Scale - spamReduction]
    IN  clamp[probability, 0, Frac(8, 10)]

\* the cap of calculateAnswerProbability
AnswerCap == Frac(95, 100)

\* calculateAnswerProbability with the factor of reputation 75 for every reputation
calculateAnswerProbabilityAnyReputation(baseAnswerProb, leadIntent, timeWindowFactor, reputation, dialerConnectMultiplier, localPresenceBonus, spamTagProbability) ==
    LET reputationFactor == Scale \div 2 + Mul[Frac(75, 100), Frac(7, 10)]
        spamPenalty == Scale - Mul[spamTagProbability, Frac(6, 10)]
        localBonus == Scale + localPresenceBonus
    IN  clamp[Mul[Mul[Mul[Mul[Mul[Mul[baseAnswerProb, leadIntent], timeWindowFactor],
                reputationFactor], dialerConnectMultiplier], spamPenalty], localBonus],
              0, Frac(95, 100)]

\* calculateAnswerProbability without the cap
calculateAnswerProbabilityUncapped(baseAnswerProb, leadIntent, timeWindowFactor, reputation, dialerConnectMultiplier, localPresenceBonus, spamTagProbability) ==
    LET reputationFactor == Scale \div 2 + Mul[(reputation * Scale) \div (100 * RepScale), Frac(7, 10)]
        spamPenalty == Scale - Mul[spamTagProbability, Frac(6, 10)]
        localBonus == Scale + localPresenceBonus
    IN  Max[0, Mul[Mul[Mul[Mul[Mul[Mul[baseAnswerProb, leadIntent], timeWindowFactor],
                reputationFactor], dialerConnectMultiplier], spamPenalty], localBonus]]

calculateAnswerProbability(baseAnswerProb, leadIntent, timeWindowFactor, reputation, dialerConnectMultiplier, localPresenceBonus, spamTagProbability) ==
    LET reputationFactor == Scale \div 2 + Mul[(reputation * Scale) \div (100 * RepScale), Frac(7, 10)]
        spamPenalty == Scale - Mul[spamTagProbability, Frac(6, 10)]
        localBonus == Scale + localPresenceBonus
        probability ==
            Mul[Mul[Mul[Mul[Mul[Mul[baseAnswerProb, leadIntent], timeWindowFactor],
                reputationFactor], dialerConnectMultiplier], spamPenalty], localBonus]
    IN  clamp[probability, 0, AnswerCap]

ConversionCap == Frac(80, 100)

calculateConversionProbability(baseConversionProb, agentMultiplier, fatigue, dialerQAMultiplier, leadRoutingBonus, morale) ==
    LET fatiguePenalty == calculateFatiguePenalty(fatigue)
        moraleFactor == Frac(8, 10) + Mul[morale, Frac(4, 10)]
        routingFactor == Scale + leadRoutingBonus
        probability ==
            Mul[Mul[Mul[Mul[Mul[baseConversionProb, agentMultiplier],
                Scale - fatiguePenalty], dialerQAMultiplier], moraleFactor], routingFactor]
    IN  clamp[probability, 0, ConversionCap]

calculateFatigueGain(resilience, baseFatigueGain, fatigueGainReduction) ==
    Mul[Mul[baseFatigueGain, Scale - Mul[resilience, Frac(6, 10)]], Scale - fatigueGainReduction]

calculateFatigueRecovery(baseFatigueRecovery, recoveryBonus) ==
    Mul[baseFatigueRecovery, Scale + recoveryBonus]

\* r is randomFn() (Scale-d); the result is in whole seconds
calculateAHT(baseAHT, agentSpeedWrapup, dialerAHTReduction, consistencyVariance, r) ==
    LET speedReduction == Mul[agentSpeedWrapup, Frac(3, 10)]
        totalReduction == Min[speedReduction + dialerAHTReduction, Scale \div 2]
        baseTimeMs == (baseAHT * (Scale - totalReduction)) \div 10
        spread == Mul[(r - Scale \div 2) * 2, consistencyVariance]
        varianceMs == (spread * baseTimeMs) \div Scale
    IN  Max[30, RoundDiv[baseTimeMs + varianceMs, 1000]]

calculateWrapUpTime(baseWrapUp, agentSpeedWrapup, dialerAHTReduction) ==
    LET speedReduction == Mul[agentSpeedWrapup, Frac(4, 10)]
        totalReduction == Min[speedReduction + dialerAHTReduction, Frac(6, 10)]
    IN  Max[10, RoundDiv[baseWrapUp * (Scale - totalReduction), Scale]]

calculateConversionRevenue(baseRevenue, leadQualityMultiplier, upgradeBonuses) ==
    RoundDiv[Mul[baseRevenue * leadQualityMultiplier, Scale + upgradeBonuses], Scale]

\* square roots taken for the fractional part of an exponent: steps of 1/256
RootSteps == 8

RECURSIVE PowBits(_, _, _, _)
\* root^(f / unit) for 0 <= f < unit, from k successive square roots of root
PowBits(root, f, unit, k) ==
    IF k = 0 THEN Scale
    ELSE IF f >= unit \div 2
         THEN Mul[SqrtS(root), PowBits(SqrtS(root), f - unit \div 2, unit \div 2, k - 1)]
         ELSE PowBits(SqrtS(root), f, unit \div 2, k - 1)

\* Math.pow(b, x) for a Scale-d base b in [0, 1] and a Scale-d exponent x >= 0:
\* the whole part of x by multiplication, the rest by square roots
PowReal(b, x) == Mul[PowS(b, x \div Scale), PowBits(b, x % Scale, Scale, RootSteps)]

\* Formulas.calculateTrainingXP(baseXP, currentLevel, trainingEfficiency), with the
\* default diminishingFactor 0.85; currentLevel and trainingEfficiency Scale-d
calculateTrainingXP(baseXP, currentLevel, trainingEfficiency) ==
    RoundDiv[Mul[baseXP * PowReal(Frac(85, 100), currentLevel * 10), Scale + trainingEfficiency],
             Scale]

(***************************************************************************)
(* Agent.                                                                  *)
(***************************************************************************)
AgentStates == {"idle", "dialing", "on_call", "wrap_up", "break", "training",
                "coaching", "unavailable"}

NoCall == [kind |-> "none", lead |-> 0, duration |-> 0, trainingSkill |-> "none"]

EmptyAgentDailyStats ==
    [dials |-> 0, contacts |-> 0, conversions |-> 0, talkTimeSeconds |-> 0,
     revenue |-> 0, complaints |-> 0]

\* the skills' defaults of the Agent constructor (baseStats.x ?? default)
DefaultBaseStats ==
    [skillTalktrack |-> Frac(4, 10), speedWrapup |-> Frac(4, 10),
     complianceDiscipline |-> Frac(5, 10), resilience |-> Frac(5, 10),
     charisma |-> Frac(3, 10), consistency |-> Frac(4, 10)]

\* Agent._generateStat; r is randomFn(), Scale-d
generateStat(base, variance, r) ==
    clamp[base + ((r - Scale \div 2) * 2 * variance) \div Scale, Frac(1, 10), Frac(9, 10)]

\* the generator after n more calls of random(): n times this.state += 0x6D2B79F5,
\* which adds n * 0x6D2B79F5 mod 2^32 (n < 2^15)
Skip(g, n) ==
    [g EXCEPT !.state = Add32[@, <<(n * Mulberry[1] + (n * Mulberry[2]) \div Half) % Half,
                                   (n * Mulberry[2]) % Half>>]]

\* the n-th next draw of generator g, Scale-d (n = 1 is the next call of random())
Draw(g, n) == RngFloor(Skip(g, n - 1), Scale)

\* new Agent({id, baseStats, statVariance, randomFn}) with randomFn drawing from
\* generator g: two draws for the name, six for the stats
NewAgent(id, baseStats, variance, g, now) ==
    [id |-> id,
     name |-> <<RngFloor(g, 32), RngFloor(Skip(g, 1), 26)>>,
     skillTalktrack |-> generateStat(baseStats.skillTalktrack, variance, Draw(g, 3)),
     speedWrapup |-> generateStat(baseStats.speedWrapup, variance, Draw(g, 4)),
     complianceDiscipline |-> generateStat(baseStats.complianceDiscipline, variance, Draw(g, 5)),
     resilience |-> generateStat(baseStats.resilience, variance, Draw(g, 6)),
     charisma |-> generateStat(baseStats.charisma, variance, Draw(g, 7)),
     consistency |-> generateStat(baseStats.consistency, variance, Draw(g, 8)),
     fatigue |-> 0,
     morale |-> Frac(7, 10),
     state |-> "idle",
     stateTimeRemaining |-> 0,
     currentCall |-> NoCall,
     trainingXP |-> [skillTalktrack |-> 0, speedWrapup |-> 0, complianceDiscipline |-> 0,
                     resilience |-> 0, charisma |-> 0, consistency |-> 0],
     dailyStats |-> EmptyAgentDailyStats,
     lifetimeStats |-> [totalCalls |-> 0, totalConversions |-> 0, totalTalkTime |-> 0,
                        daysWorked |-> 0],
     hiredAt |-> now]

AgentDraws == 8

isAvailable(a) == a.state = "idle"

startDialing(a, dialDurationSeconds) ==
    [a EXCEPT !.state = "dialing", !.stateTimeRemaining = dialDurationSeconds]

\* startCall that leaves the agent's contacts of the day alone
startCallUncounted(a, callDurationSeconds, callData) ==
    [a EXCEPT !.state = "on_call", !.stateTimeRemaining = callDurationSeconds,
              !.currentCall = callData, !.lifetimeStats.totalCalls = @ + 1]

\* Agent.startCall(callDurationSeconds, callData)
startCall(a, callDurationSeconds, callData) ==
    [a EXCEPT !.state = "on_call", !.stateTimeRemaining = callDurationSeconds,
              !.currentCall = callData,
              !.dailyStats.contacts = @ + 1, !.lifetimeStats.totalCalls = @ + 1]

startWrapUp(a, wrapUpSeconds) ==
    LET d == IF a.currentCall.kind = "call" THEN a.currentCall.duration ELSE 0
    IN  [a EXCEPT !.state = "wrap_up", !.stateTimeRemaining = wrapUpSeconds,
                  !.dailyStats.talkTimeSeconds = @ + d,
                  !.lifetimeStats.totalTalkTime = @ + d,
                  !.currentCall = NoCall]

completeWrapUp(a) == [a EXCEPT !.state = "idle", !.stateTimeRemaining = 0]

startBreak(a, breakDurationSeconds) ==
    [a EXCEPT !.state = "break", !.stateTimeRemaining = breakDurationSeconds]

startTraining(a, skillToTrain, trainingDurationSeconds) ==
    [a EXCEPT !.state = "training", !.stateTimeRemaining = trainingDurationSeconds,
              !.currentCall = [NoCall EXCEPT !.kind = "training", !.trainingSkill = skillToTrain]]

\* Agent.addTrainingXP(skill, xp): only a skill that trainingXP knows
addTrainingXP(a, skill, xp) ==
    IF skill \in DOMAIN a.trainingXP THEN [a EXCEPT !.trainingXP[skill] = @ + xp] ELSE a

AgentRecordConversion(a, revenue) ==
    [a EXCEPT !.dailyStats.conversions = @ + 1, !.dailyStats.revenue = @ + revenue,
              !.lifetimeStats.totalConversions = @ + 1]

AgentRecordDial(a) == [a EXCEPT !.dailyStats.dials = @ + 1]

AgentRecordComplaint(a) == [a EXCEPT !.dailyStats.complaints = @ + 1]

\* adjustFatigue without the clamp
adjustFatigueUnclamped(a, delta) == [a EXCEPT !.fatigue = @ + delta]

\* Agent.adjustFatigue(delta)
adjustFatigue(a, delta) == [a EXCEPT !.fatigue = clamp[@ + delta, 0, Scale]]

\* Agent.adjustMorale(delta)
adjustMorale(a, delta) == [a EXCEPT !.morale = clamp[@ + delta, 0, Scale]]

resetDailyStats(a) ==
    [a EXCEPT !.dailyStats = EmptyAgentDailyStats, !.lifetimeStats.daysWorked = @ + 1]

getConversionMultiplier(a) ==
    LET talktrackEffect == Frac(7, 10) + Mul[a.skillTalktrack, Frac(6, 10)]
        charismaEffect == Scale + Mul[a.charisma, Frac(15, 100)]
        consistencyEffect == Scale + Mul[a.consistency, Frac(5, 100)]
    IN  Mul[Mul[talktrackEffect, charismaEffect], consistencyEffect]

(***************************************************************************)
(* Lead, LeadSource, LeadPool.                                             *)
(***************************************************************************)
LeadStatuses == {"fresh", "contacted", "converted", "exhausted", "dnc"}

\* Lead._generatePreferredHours; rm and re are the two draws, Scale-d
generatePreferredHours(rm, re) ==
    LET morning == rm > Frac(3, 10)
        evening == re > Frac(5, 10)
        hours == (IF morning THEN <<10, 11, 12, 13, 14>> ELSE <<>>)
                 \o (IF evening THEN <<17, 18, 19>> ELSE <<>>)
    IN  IF Len(hours) = 0 THEN <<10, 11, 14, 15>> ELSE hours

\* the jitter of the Lead constructor: clamp(base * (1 + (randomFn() - 0.5) * 0.1), lo, hi)
Jitter(base, r, lo, hi) == clamp[base + (base * (r - Scale \div 2)) \div (10 * Scale), lo, hi]

\* new Lead({...}) with the four draws ra, rc, rm, re of randomFn, in call order
NewLead(id, sourceId, baseAnswerProbability, baseConversionProbability, intentMultiplier, complianceRisk, freshnessDecayPerDay, createdAt, ra, rc, rm, re) ==
    [id |-> id,
     sourceId |-> sourceId,
     baseAnswerProbability |-> Jitter(baseAnswerProbability, ra, Frac(5, 100), Frac(95, 100)),
     baseConversionProbability |-> Jitter(baseConversionProbability, rc, Frac(1, 100), Frac(5, 10)),
     intentMultiplier |-> intentMultiplier,
     complianceRisk |-> complianceRisk,
     freshnessDecayPerDay |-> freshnessDecayPerDay,
     createdAt |-> createdAt,
     lastDialedAt |-> Null,
     dialAttempts |-> 0,
     maxDialAttempts |-> DefaultMaxDialAttempts,
     preferredHours |-> generatePreferredHours(rm, re),
     status |-> "fresh",
     convertedAt |-> Null]

LeadDraws == 4

\* LeadSource.generateLead with randomFn drawing from generator g; createdAt: Date.now()
generateLead(source, leadId, g, now) ==
    NewLead(leadId, source.id, source.baseAnswerProbability, source.baseConversionProbability,
            source.intentMultiplier, source.complianceRisk, source.freshnessDecayPerDay, now,
            Draw(g, 1), Draw(g, 2), Draw(g, 3), Draw(g, 4))

\* Lead.getFreshness, reading the wall clock (Date.now())
getFreshness(l, now) ==
    LET decay == ((now - l.createdAt) * l.freshnessDecayPerDay) \div WallUnitsPerDay
    IN  clamp[Scale - decay, Frac(2, 10), Scale]

InSeq(x, s) == \E i \in 1..Len(s) : s[i] = x

getTimeMultiplier(l, hourOfDay) ==
    IF InSeq(hourOfDay, l.preferredHours) THEN Frac(12, 10)
    ELSE IF hourOfDay < 9 \/ hourOfDay > 19 THEN Frac(5, 10)
    ELSE Scale

getAnswerProbability(l, hourOfDay, now) ==
    LET freshness == getFreshness(l, now)
        timeFactor == getTimeMultiplier(l, hourOfDay)
        dialPenalty == PowS(Frac(8, 10), l.dialAttempts)
    IN  clamp[Mul[Mul[Mul[Mul[l.baseAnswerProbability, l.intentMultiplier], freshness],
                  timeFactor], dialPenalty],
              Frac(1, 100), Frac(95, 100)]

getConversionProbability(l, now) ==
    clamp[Mul[Mul[l.baseConversionProbability, l.intentMultiplier], getFreshness(l, now)],
          Frac(1, 100), Frac(5, 10)]

\* a faulty isDialable that forgets the status: any lead with attempts left
isDialableAnyStatus(l) == l.dialAttempts < l.maxDialAttempts

isDialable(l) == l.status = "fresh" /\ l.dialAttempts < l.maxDialAttempts

isRedialable(l) == l.status = "contacted" /\ l.dialAttempts < l.maxDialAttempts + 2

\* a faulty recordDial that compares with > : the last allowed dial exhausts nothing
LeadRecordDialLate(l, now) ==
    [l EXCEPT !.dialAttempts = @ + 1,
              !.lastDialedAt = now,
              !.status = IF l.dialAttempts + 1 > l.maxDialAttempts THEN "exhausted" ELSE @]

\* Lead.recordDial(timestamp = Date.now())
LeadRecordDial(l, now) ==
    [l EXCEPT !.dialAttempts = @ + 1,
              !.lastDialedAt = now,
              !.status = IF l.dialAttempts + 1 >= l.maxDialAttempts THEN "exhausted" ELSE @]

LeadRecordContact(l) == [l EXCEPT !.status = "contacted"]

LeadRecordConversion(l, now) == [l EXCEPT !.status = "converted", !.convertedAt = now]

markDNC(l) == [l EXCEPT !.status = "dnc"]

\* LeadPool.getDialableLeads / getRedialableLeads over the leads in insertion order
getDialableLeads(pool) == SelectSeq(pool.leads, isDialable)
getRedialableLeads(pool) == SelectSeq(pool.leads, isRedialable)

\* the position in pool.leads of the lead with the given id
LeadIndex(pool, id) == CHOOSE i \in 1..Len(pool.leads) : pool.leads[i].id = id

\* Array.prototype.sort((a, b) => b.score - a.score): stable, descending
RECURSIVE InsertByScore(_, _)
InsertByScore(sorted, e) ==
    IF Len(sorted) = 0 THEN <<e>>
    ELSE IF Head(sorted).score >= e.score
         THEN <<Head(sorted)>> \o InsertByScore(Tail(sorted), e)
         ELSE <<e>> \o sorted

RECURSIVE SortByScore(_, _)
SortByScore(done, rest) ==
    IF Len(rest) = 0 THEN done
    ELSE SortByScore(InsertByScore(done, Head(rest)), Tail(rest))

\* the candidates of getNextLead, scored and sorted
ScoredCandidates(pool, hourOfDay, now) ==
    LET fresh == getDialableLeads(pool)
        isRedial == Len(fresh) = 0
        dialable == IF isRedial THEN getRedialableLeads(pool) ELSE fresh
        scored == Array([i \in 1..Len(dialable) |->
                     LET sc == getAnswerProbability(dialable[i], hourOfDay, now)
                               * getConversionProbability(dialable[i], now)
                     IN  [lead |-> dialable[i].id,
                          score |-> IF isRedial THEN (sc * 6) \div 10 ELSE sc,
                          isRedial |-> isRedial]])
    IN  SortByScore(<<>>, scored)

\* getNextLead that picks among all the candidates, not the top fifth
getNextLeadAmongAll(pool, hourOfDay, g, now) ==
    LET scored == ScoredCandidates(pool, hourOfDay, now)
        index == RngFloor(g, Len(scored))
    IN  IF Len(scored) = 0 THEN 0 ELSE scored[index + 1].lead

\* LeadPool.getNextLead(hourOfDay, randomFn) with randomFn drawing from generator g:
\* the id of the chosen lead, 0 for null (then no draw is made)
getNextLead(pool, hourOfDay, g, now) ==
    LET scored == ScoredCandidates(pool, hourOfDay, now)
        topCount == Max[1, Len(scored) \div 5]
        index == RngFloor(g, topCount)
    IN  IF Len(scored) = 0 THEN 0 ELSE scored[index + 1].lead

\* this.leads.set(lead.id, lead) on the map kept in insertion order
LeadsSet(leads, lead) ==
    IF \E i \in 1..Len(leads) : leads[i].id = lead.id
    THEN [i \in 1..Len(leads) |-> IF leads[i].id = lead.id THEN lead ELSE leads[i]]
    ELSE Append(leads, lead)

RECURSIVE GenerateFrom(_, _, _, _, _)
\* the loop of LeadPool.generateLeads: <<pool, generator>> after count leads
GenerateFrom(pool, source, count, g, now) ==
    IF count <= 0 THEN <<pool, g>>
    ELSE IF count = 1
    THEN <<[pool EXCEPT !.leads = LeadsSet(@, generateLead(source, pool.nextLeadId, g, now)),
                        !.nextLeadId = @ + 1],
           Skip(g, LeadDraws)>>
    ELSE LET half == GenerateFrom(pool, source, count \div 2, g, now)
         IN  \* (the test computes the first half before the second is begun)
             IF Len(half) = 2
             THEN GenerateFrom(half[1], source, count - (count \div 2), half[2], now)
             ELSE half

SourceOf(pool, sourceId) ==
    LET idx == {i \in 1..Len(pool.sources) : pool.sources[i].id = sourceId}
    IN  IF idx = {} THEN [id |-> "none", unlocked |-> FALSE]
        ELSE pool.sources[CHOOSE i \in idx : TRUE]

\* generateLeads that takes the ids of its leads from the size of the pool
generateLeadsNumberedBySize(pool, sourceId, count, g, now) ==
    LET source == SourceOf(pool, sourceId)
    IN  IF ~source.unlocked THEN <<pool, g>>
        ELSE LET done == GenerateFrom([pool EXCEPT !.nextLeadId = Len(pool.leads)],
                                      source, count, g, now)
             IN  <<[done[1] EXCEPT !.nextLeadId = pool.nextLeadId + count], done[2]>>

\* the ids of the leads LeadPool.generateLeads returns (newLeads)
GeneratedIds(pool, sourceId, count) ==
    IF ~SourceOf(pool, sourceId).unlocked THEN <<>>
    ELSE [i \in 1..Max[0, count] |-> pool.nextLeadId + i - 1]

\* LeadPool.generateLeads(sourceId, count, randomFn)
generateLeads(pool, sourceId, count, g, now) ==
    LET source == SourceOf(pool, sourceId)
    IN  IF ~source.unlocked THEN <<pool, g>>
        ELSE GenerateFrom(pool, source, count, g, now)

(***************************************************************************)
(* Dialer, DialerManager.                                                  *)
(***************************************************************************)
NoDialer == [id |-> "none", unlocked |-> FALSE]

\* DialerManager.getActiveDialer: this.dialers.get(this.activeDialerId)
getActiveDialer(dm) ==
    LET idx == {i \in 1..Len(dm.dialers) : dm.dialers[i].id = dm.activeDialerId}
    IN  IF idx = {} THEN NoDialer ELSE dm.dialers[CHOOSE i \in idx : TRUE]

\* this.dialers.get(dialerId): the entry's position, 0 when there is none
DialerIndex(dm, dialerId) ==
    LET idx == {i \in 1..Len(dm.dialers) : dm.dialers[i].id = dialerId}
    IN  IF idx = {} THEN 0 ELSE CHOOSE i \in idx : TRUE

\* the ids of the unlocked dialers
UnlockedSet(dm) == {dm.dialers[i].id : i \in {j \in 1..Len(dm.dialers) : dm.dialers[j].unlocked}}

\* canUnlock that does not look at the prerequisites
canUnlockAnyLocked(dialer, unlockedDialers) == ~dialer.unlocked

\* Dialer.canUnlock(unlockedDialers)
canUnlock(dialer, unlockedDialers) ==
    IF dialer.unlocked THEN FALSE ELSE dialer.prerequisites \subseteq unlockedDialers

\* DialerManager.unlockDialer(dialerId): <<returned value, the manager afterwards>>
DialerManagerUnlock(dm, dialerId) ==
    LET i == DialerIndex(dm, dialerId)
    IN  IF i # 0 /\ ~dm.dialers[i].unlocked /\ canUnlock(dm.dialers[i], UnlockedSet(dm))
        THEN <<TRUE, [dm EXCEPT !.dialers[i].unlocked = TRUE]>>
        ELSE <<FALSE, dm>>

\* setActiveDialer that does not look at the unlocked flag
setActiveDialerUnchecked(dm, dialerId) ==
    LET i == DialerIndex(dm, dialerId)
    IN  IF i # 0
        THEN <<TRUE, [dm EXCEPT !.activeDialerId = dialerId]>>
        ELSE <<FALSE, dm>>

\* DialerManager.setActiveDialer(dialerId): <<returned value, the manager afterwards>>
setActiveDialer(dm, dialerId) ==
    LET i == DialerIndex(dm, dialerId)
    IN  IF i # 0 /\ dm.dialers[i].unlocked
        THEN <<TRUE, [dm EXCEPT !.activeDialerId = dialerId]>>
        ELSE <<FALSE, dm>>

\* Dialer.shouldAbandon(randomFn); r is randomFn(), Scale-d
shouldAbandon(dialer, r) == r < dialer.abandonmentRate

(***************************************************************************)
(* GameState.                                                              *)
(***************************************************************************)
EmptyDailyStats ==
    [dials |-> 0, contacts |-> 0, conversions |-> 0, revenue |-> 0, costs |-> 0,
     profit |-> 0, complaints |-> 0, abandonments |-> 0]

EmptyLifetimeStats ==
    [totalDials |-> 0, totalContacts |-> 0, totalConversions |-> 0,
     totalRevenue |-> 0, totalCosts |-> 0, daysPlayed |-> 0]

NoUpgradeEffects ==
    [answerRateBonus |-> 0, spamReduction |-> 0, leadRoutingEfficiency |-> 0,
     trainingEfficiency |-> 0, fatigueRecoveryBonus |-> 0, fatigueGainReduction |-> 0,
     newAgentStatBonus |-> 0, globalSkillTalktrack |-> 0, globalCompliance |-> 0,
     globalSpeedWrapup |-> 0, globalConsistency |-> 0]

\* new GameState()
NewGameState ==
    [cash |-> StartingCash,
     reputation |-> StartingReputation * RepScale,
     agents |-> <<>>,
     nextAgentId |-> 1,
     leadPool |-> [leads |-> <<>>, sources |-> <<>>, nextLeadId |-> 1],
     dialerManager |-> [dialers |-> <<>>, activeDialerId |-> "manual"],
     upgrades |-> <<>>,
     upgradeEffects |-> NoUpgradeEffects,
     gameTime |-> [day |-> 1, hour |-> WorkStartHour, minute |-> 0, totalMinutes |-> 0],
     dailyStats |-> EmptyDailyStats,
     lifetimeStats |-> EmptyLifetimeStats,
     isPaused |-> TRUE,
     speedMultiplier |-> 1]

\* GameState.addAgent(baseStats, statVariance, randomFn)
addAgent(st, baseStats, variance, g, now) ==
    [st EXCEPT !.agents = Append(@, NewAgent(st.nextAgentId, baseStats, variance, g, now)),
               !.nextAgentId = @ + 1]

\* adjustCash that books every amount as revenue
adjustCashAllRevenue(st, amount) ==
    [st EXCEPT !.cash = @ + amount,
               !.dailyStats.revenue = @ + amount,
               !.lifetimeStats.totalRevenue = @ + amount]

\* GameState.adjustCash(amount)
adjustCash(st, amount) ==
    IF amount > 0
    THEN [st EXCEPT !.cash = @ + amount,
                    !.dailyStats.revenue = @ + amount,
                    !.lifetimeStats.totalRevenue = @ + amount]
    ELSE [st EXCEPT !.cash = @ + amount,
                    !.dailyStats.costs = @ - amount,
                    !.lifetimeStats.totalCosts = @ - amount]

\* adjustReputation without the clamp
adjustReputationUnclamped(st, amount) == [st EXCEPT !.reputation = @ + amount]

\* GameState.adjustReputation; amount in RepScale units
adjustReputation(st, amount) ==
    [st EXCEPT !.reputation = clamp[@ + amount, 0, 100 * RepScale]]

StateRecordDial(st) ==
    [st EXCEPT !.dailyStats.dials = @ + 1, !.lifetimeStats.totalDials = @ + 1]

StateRecordContact(st) ==
    [st EXCEPT !.dailyStats.contacts = @ + 1, !.lifetimeStats.totalContacts = @ + 1]

StateRecordConversion(st, revenue) ==
    adjustCash([st EXCEPT !.dailyStats.conversions = @ + 1,
                          !.lifetimeStats.totalConversions = @ + 1], revenue)

StateRecordComplaint(st) == [st EXCEPT !.dailyStats.complaints = @ + 1]

\* an abandoned dial counted as a contact as well
recordAbandonmentAndContact(st) ==
    [st EXCEPT !.dailyStats.abandonments = @ + 1, !.dailyStats.contacts = @ + 1]

\* GameState.recordAbandonment
recordAbandonment(st) == [st EXCEPT !.dailyStats.abandonments = @ + 1]

isWorkHours(st) == st.gameTime.hour >= WorkStartHour /\ st.gameTime.hour < WorkEndHour

\* the value GameState.endDay returns: the daily stats with the profit filled in
endDaySnapshot(st) ==
    [st.dailyStats EXCEPT !.profit = st.dailyStats.revenue - st.dailyStats.costs]

\* endDay that forgets the agents: their daily stats and fatigue stay
endDayKeepingAgents(st) ==
    [st EXCEPT
        !.lifetimeStats.daysPlayed = @ + 1,
        !.gameTime.day = @ + 1,
        !.gameTime.hour = WorkStartHour,
        !.gameTime.minute = 0,
        !.dailyStats = EmptyDailyStats]

\* the state GameState.endDay leaves
endDay(st) ==
    [st EXCEPT
        !.lifetimeStats.daysPlayed = @ + 1,
        !.agents = Array([i \in 1..Len(st.agents) |->
                      [resetDailyStats(st.agents[i]) EXCEPT
                          !.fatigue = Max[0, @ - Frac(3, 10)]]]),
        !.gameTime.day = @ + 1,
        !.gameTime.hour = WorkStartHour,
        !.gameTime.minute = 0,
        !.dailyStats = EmptyDailyStats]

\* the clock after minute += minutes without the loop that carries into the hour
CarriedClockWithoutCarry(gt, minutes) ==
    [gt EXCEPT !.minute = gt.minute + minutes, !.totalMinutes = gt.totalMinutes + minutes]

\* the clock after minute += minutes and the while loop that carries into the hour
CarriedClock(gt, minutes) ==
    [gt EXCEPT !.minute = (gt.minute + minutes) % 60,
               !.hour = gt.hour + (gt.minute + minutes) \div 60,
               !.totalMinutes = gt.totalMinutes + minutes]

\* the hour at which advanceTime calls endDay
DayEndHour == 24

\* a faulty test that compares with > : the day would end one hour late
AdvanceEndsDayLate(st, minutes) == CarriedClock(st.gameTime, minutes).hour > DayEndHour

\* does advanceTime(minutes) call endDay()?
AdvanceEndsDay(st, minutes) == CarriedClock(st.gameTime, minutes).hour >= DayEndHour

\* GameState.advanceTime(minutes)
advanceTime(st, minutes) ==
    LET carried == [st EXCEPT !.gameTime = CarriedClock(st.gameTime, minutes)]
    IN  IF AdvanceEndsDay(st, minutes) THEN endDay(carried) ELSE carried

(***************************************************************************)
(* SimulationEngine.  An engine value W bundles what a handler reads and   *)
(* writes: the game state, the random source, the registered callbacks,    *)
(* the observations (how often each callback was invoked, how often        *)
(* endDay ran, which lead status changes occurred, how many ticks did      *)
(* their work) and the value the last operation returned.  Date.now() is   *)
(* the parameter now; one handler call reads one wall-clock value.         *)
(***************************************************************************)
CallbackEvents == {"onTick", "onMinute", "onHour", "onDayEnd", "onConversion", "onEvent"}

NoObservations ==
    [fired |-> [e \in CallbackEvents |-> 0], endDays |-> 0, statusChanges |-> {},
     ticksRun |-> 0, minutesAdvanced |-> 0, agentChanges |-> {},
     answerProbs |-> {}, conversionProbs |-> {}, dialedStatuses |-> {}]

\* new SimulationEngine(gameState, configs, seed)
NewEngine(st, seed) ==
    [state |-> st, rng |-> NewRNG(seed), callbacks |-> [e \in CallbackEvents |-> FALSE],
     obs |-> NoObservations, ret |-> <<>>]

\* SimulationEngine.on(event, callback)
on(W, event) ==
    IF event \in CallbackEvents THEN [W EXCEPT !.callbacks[event] = TRUE] ELSE W

\* if (this.callbacks.e) this.callbacks.e(...)
Fire(W, e) == IF W.callbacks[e] THEN [W EXCEPT !.obs.fired[e] = @ + 1] ELSE W

\* a lead's status assignment, with the change observed
SetLead(W, i, l) ==
    LET old == W.state.leadPool.leads[i].status
    IN  [W EXCEPT !.state.leadPool.leads[i] = l,
                  !.obs.statusChanges = IF l.status = old THEN @ ELSE @ \cup {<<old, l.status>>}]

\* statement sequencing: W is what the statements so far have left, Op the next
\* statement; W is computed (W = W) before Op begins
Then(W, Op(_)) == IF W = W THEN Op(W) ELSE W

\* GameState.endDay() run on the engine's state: the returned snapshot is appended to ret
EndDayW(W) ==
    [W EXCEPT !.state = endDay(W.state), !.obs.endDays = @ + 1,
              !.ret = Append(@, endDaySnapshot(W.state))]

\* this.state.advanceTime(minutes) with the snapshot of its endDay() dropped
AdvanceTimeW(W, minutes) ==
    [W EXCEPT !.state = advanceTime(W.state, minutes),
              !.obs.endDays = IF AdvanceEndsDay(W.state, minutes) THEN @ + 1 ELSE @,
              !.obs.minutesAdvanced = @ + minutes]

\* agent[skill] || 0 for the skill of a training session
SkillLevel(a, skill) == IF skill \in DOMAIN a /\ skill \in DOMAIN a.trainingXP THEN a[skill] ELSE 0

\* SimulationEngine.completeTraining: without a skill in currentCall nothing happens
completeTraining(st, a) ==
    IF a.currentCall.trainingSkill = "none" THEN a
    ELSE [addTrainingXP(a, a.currentCall.trainingSkill,
                        calculateTrainingXP(TrainingConfig.baseXPPerSession,
                                            SkillLevel(a, a.currentCall.trainingSkill),
                                            st.upgradeEffects.trainingEfficiency))
            EXCEPT !.currentCall = NoCall]

\* transitionAgentState that ends a call without wrap-up
transitionAgentStateNoWrapUp(st, a) ==
    CASE a.state = "dialing" -> [a EXCEPT !.state = "idle"]
      [] a.state = "on_call" -> completeWrapUp(a)
      [] a.state = "wrap_up" -> completeWrapUp(a)
      [] a.state = "break" -> [a EXCEPT !.state = "idle"]
      [] a.state = "training" -> [completeTraining(st, a) EXCEPT !.state = "idle"]
      [] OTHER -> a

\* SimulationEngine.transitionAgentState
transitionAgentState(st, a) ==
    CASE a.state = "dialing" -> [a EXCEPT !.state = "idle"]
      [] a.state = "on_call" ->
            startWrapUp(a, calculateWrapUpTime(BaseWrapUpSeconds, a.speedWrapup,
                                               getActiveDialer(st.dialerManager).ahtReductionFactor))
      [] a.state = "wrap_up" -> completeWrapUp(a)
      [] a.state = "break" -> [a EXCEPT !.state = "idle"]
      [] a.state = "training" -> [completeTraining(st, a) EXCEPT !.state = "idle"]
      [] OTHER -> a

\* one iteration of the loop of processAgentStates
AgentStateStep(st, a) ==
    IF a.stateTimeRemaining > 0
    THEN LET a1 == [a EXCEPT !.stateTimeRemaining = @ - TickSeconds]
         IN  IF a1.stateTimeRemaining <= 0 THEN transitionAgentState(st, a1) ELSE a1
    ELSE a

\* the state changes of the agents between two lists of them, as <<from, to>>
StateChanges(before, after) ==
    {<<before[i].state, after[i].state>> :
        i \in {j \in 1..Len(before) : before[j].state # after[j].state}}

\* SimulationEngine.processAgentStates, with the state changes observed
processAgentStates(W) ==
    LET agents == Array([i \in 1..Len(W.state.agents) |->
                           AgentStateStep(W.state, W.state.agents[i])])
    IN  [W EXCEPT !.state.agents = agents,
                  !.obs.agentChanges = @ \cup StateChanges(W.state.agents, agents)]

\* processAnswer: lead.recordContact(); this.state.recordContact()
AnswerContact(W, li) ==
    [SetLead(W, li, LeadRecordContact(W.state.leadPool.leads[li]))
       EXCEPT !.state = StateRecordContact(@)]

\* the conversionProb processAnswer computes (startCall changes nothing it reads)
AnswerConversionProb(st, ai, li, dialer, now) ==
    calculateConversionProbability(
        getConversionProbability(st.leadPool.leads[li], now),
        getConversionMultiplier(st.agents[ai]), st.agents[ai].fatigue,
        dialer.qaAssistMultiplier, st.upgradeEffects.leadRoutingEfficiency,
        st.agents[ai].morale)

\* agent.startCall(aht, {lead, duration: aht})
StartCallOf(a, aht, leadId) ==
    startCall(a, aht, [NoCall EXCEPT !.kind = "call", !.lead = leadId, !.duration = aht])

\* processAnswer: aht = Formulas.calculateAHT({...}), one draw; agent.startCall(...)
AnswerCall(W, ai, li, dialer) ==
    [W EXCEPT !.rng = Skip(@, 1),
              !.obs.agentChanges = @ \cup {<<W.state.agents[ai].state, "on_call">>},
              !.state.agents[ai] =
                  StartCallOf(@, calculateAHT(BaseAHTSeconds, @.speedWrapup,
                                              dialer.ahtReductionFactor,
                                              Scale - @.consistency, Draw(W.rng, 1)),
                              W.state.leadPool.leads[li].id)]

\* the body of if (this.rng.chance(conversionProb)) {...}
RecordConversions(W, ai, li, revenue, now) ==
    Fire([SetLead(W, li, LeadRecordConversion(W.state.leadPool.leads[li], now)) EXCEPT
             !.state = StateRecordConversion(
                 [@ EXCEPT !.agents[ai] = AgentRecordConversion(@, revenue)], revenue)],
         "onConversion")

\* processAnswer: if (this.rng.chance(conversionProb)) {...}, one draw
AnswerConversion(W, ai, li, dialer, now) ==
    IF Draw(W.rng, 1) < AnswerConversionProb(W.state, ai, li, dialer, now)
    THEN RecordConversions(
             [W EXCEPT !.rng = Skip(@, 1),
                       !.obs.conversionProbs =
                           @ \cup {AnswerConversionProb(W.state, ai, li, dialer, now)}],
             ai, li,
             calculateConversionRevenue(BaseRevenuePerConversion,
                                        W.state.leadPool.leads[li].intentMultiplier, 0),
             now)
    ELSE [W EXCEPT !.rng = Skip(@, 1),
                   !.obs.conversionProbs =
                       @ \cup {AnswerConversionProb(W.state, ai, li, dialer, now)}]

\* processAnswer: if (this.rng.chance(complianceRisk * (1 - complianceDiscipline))) {...}
AnswerComplaint(W, ai, li) ==
    IF Draw(W.rng, 1) < Mul[W.state.leadPool.leads[li].complianceRisk,
                            Scale - W.state.agents[ai].complianceDiscipline]
    THEN [W EXCEPT !.rng = Skip(@, 1),
                   !.state = adjustReputation(
                       StateRecordComplaint([@ EXCEPT !.agents[ai] = AgentRecordComplaint(@)]),
                       0 - 2 * RepScale)]
    ELSE [W EXCEPT !.rng = Skip(@, 1)]

\* SimulationEngine.processAnswer; ai: the agent's position, li: the lead's position
processAnswer(W, ai, li, dialer, now) ==
    Then(Then(Then(AnswerContact(W, li),
                   LAMBDA X : AnswerCall(X, ai, li, dialer)),
              LAMBDA X : AnswerConversion(X, ai, li, dialer, now)),
         LAMBDA X : AnswerComplaint(X, ai, li))

\* the probability processDial draws the answer with
DialAnswerProbability(st, lead, dialer, now) ==
    calculateAnswerProbability(
        getAnswerProbability(lead, st.gameTime.hour, now), lead.intentMultiplier, Scale,
        st.reputation, dialer.connectRateMultiplier, st.upgradeEffects.answerRateBonus,
        calculateSpamTagProbability(st.reputation, st.dailyStats.dials,
                                    dialer.spamRiskMultiplier, st.upgradeEffects.spamReduction))

\* this.configs of the engine: the configuration documents it was built with
VARIABLE configs

\* processDial: agent.startDialing(...); agent.recordDial(); lead.recordDial();
\* this.state.recordDial()
DialRecorded(W, ai, li, now) ==
    [SetLead(W, li, LeadRecordDial(W.state.leadPool.leads[li], now)) EXCEPT
        !.state = StateRecordDial(
            [@ EXCEPT !.agents[ai] = AgentRecordDial(startDialing(@, configs.call.dialDurationSeconds))]),
        !.obs.agentChanges = @ \cup {<<W.state.agents[ai].state, "dialing">>},
        !.obs.dialedStatuses = @ \cup {W.state.leadPool.leads[li].status}]

\* processDial: if (this.rng.chance(answerProb)) ... else if (dialer.shouldAbandon(...)) ...
DialOutcome(W, ai, li, dialer, now) ==
    LET answerProb == DialAnswerProbability(W.state, W.state.leadPool.leads[li], dialer, now)
        D == [W EXCEPT !.obs.answerProbs = @ \cup {answerProb}]
    IN  IF Draw(W.rng, 1) < answerProb
        THEN processAnswer([D EXCEPT !.rng = Skip(@, 1)], ai, li, dialer, now)
        ELSE IF shouldAbandon(dialer, Draw(W.rng, 2))
             THEN [D EXCEPT !.rng = Skip(@, 2),
                            !.state = adjustReputation(recordAbandonment(@), 0 - RepScale \div 2)]
             ELSE [D EXCEPT !.rng = Skip(@, 2)]

\* SimulationEngine.processDial
processDial(W, ai, li, dialer, now) ==
    Then(DialRecorded(W, ai, li, now), LAMBDA X : DialOutcome(X, ai, li, dialer, now))

\* the positions of the agents getAvailableAgents() returns, in order
AvailablePositions(st) ==
    SelectSeq(Array([i \in 1..Len(st.agents) |-> i]), LAMBDA i : isAvailable(st.agents[i]))

\* the dials of a tick rounded down
DialsThisTickRoundedDown(dialer, available) ==
    (dialer.dialsPerMinutePerAgent * available) \div TicksPerMinute

\* Math.ceil(dialer.dialsPerMinutePerAgent * availableAgents.length / ticksPerMinute)
DialsThisTick(dialer, available) ==
    (dialer.dialsPerMinutePerAgent * available + TicksPerMinute - 1) \div TicksPerMinute

\* does processDialing return before its loop?
NothingToDial(available, dialable) == available = 0 \/ dialable = 0

\* the body of the for loop of processDialing once getNextLead has returned leadId
\* (0 for null: break) and made its draw
DialLead(W, ai, leadId, dialer, now) ==
    IF leadId = 0 THEN W
    ELSE processDial([W EXCEPT !.rng = Skip(@, 1)], ai, LeadIndex(W.state.leadPool, leadId),
                     dialer, now)

RECURSIVE DialLoop(_, _, _, _, _, _)
\* the for loop of processDialing from iteration i (1-based) up to n
DialLoop(W, avail, i, n, dialer, now) ==
    IF i > n \/ getNextLead(W.state.leadPool, W.state.gameTime.hour, W.rng, now) = 0 THEN W
    ELSE Then(DialLead(W, avail[i],
                       getNextLead(W.state.leadPool, W.state.gameTime.hour, W.rng, now),
                       dialer, now),
              LAMBDA X : DialLoop(X, avail, i + 1, n, dialer, now))

\* SimulationEngine.processDialing
processDialing(W, dialer, now) ==
    LET avail == AvailablePositions(W.state)
        dialable == Len(getDialableLeads(W.state.leadPool))
    IN  IF NothingToDial(Len(avail), dialable) THEN W
        ELSE DialLoop(W, avail, 1,
                      Min[DialsThisTick(dialer, Len(avail)), Min[Len(avail), dialable]],
                      dialer, now)

\* one iteration of the loop of processFatigue
FatigueStep(st, a) ==
    CASE a.state = "on_call" ->
            adjustFatigue(a, calculateFatigueGain(
                a.resilience, BaseFatigueGainPerCallMinute \div TicksPerMinute,
                st.upgradeEffects.fatigueGainReduction))
      [] a.state = "break" ->
            adjustFatigue(a, 0 - 3 * calculateFatigueRecovery(
                BaseFatigueRecoveryPerMinute \div TicksPerMinute,
                st.upgradeEffects.fatigueRecoveryBonus))
      [] a.state = "idle" ->
            adjustFatigue(a, 0 - calculateFatigueRecovery(
                BaseFatigueRecoveryPerMinute \div TicksPerMinute,
                st.upgradeEffects.fatigueRecoveryBonus) \div 2)
      [] OTHER -> a

processFatigue(W) ==
    [W EXCEPT !.state.agents = Array([i \in 1..Len(W.state.agents) |->
                                   FatigueStep(W.state, W.state.agents[i])])]

\* the guard at the top of tick(): does the tick return at once?
TickSkipped(st) ==
    st.isPaused \/ ~isWorkHours(st) \/ getActiveDialer(st.dialerManager).id = "none"

\* tick that does not look at the work hours
tickAroundTheClock(W, now) ==
    IF W.state.isPaused \/ getActiveDialer(W.state.dialerManager).id = "none" THEN W
    ELSE Then(Then(Then(processAgentStates(W),
                        LAMBDA X : processDialing(X, getActiveDialer(X.state.dialerManager), now)),
                   LAMBDA X : processFatigue(X)),
              LAMBDA X : Fire([X EXCEPT !.obs.ticksRun = @ + 1], "onTick"))

\* SimulationEngine.tick
tick(W, now) ==
    IF TickSkipped(W.state) THEN W
    ELSE Then(Then(Then(processAgentStates(W),
                        LAMBDA X : processDialing(X, getActiveDialer(X.state.dialerManager), now)),
                   LAMBDA X : processFatigue(X)),
              LAMBDA X : Fire([X EXCEPT !.obs.ticksRun = @ + 1], "onTick"))

\* the number of iterations, of k >= 2, that are computed before the others begin
FirstPart(k) == (k + 1) \div 3

RECURSIVE Ticks(_, _, _)
\* for (let i = 0; i < this.ticksPerMinute; i++) this.tick(): k >= 1 iterations
Ticks(W, k, now) ==
    IF W = W /\ k > 1
    THEN Ticks(Ticks(W, FirstPart(k), now), k - FirstPart(k), now)
    ELSE tick(W, now)

\* SimulationEngine.processMinute
processMinute(W, now) ==
    Fire(AdvanceTimeW(Ticks(W, TicksPerMinute, now), 1), "onMinute")

InSimulatedHours(st) ==
    st.gameTime.hour < WorkEndHour /\ st.gameTime.hour >= WorkStartHour

\* one iteration of the while loop of simulateDay, if its condition holds
SimulateMinute(W, now) == IF InSimulatedHours(W.state) THEN processMinute(W, now) ELSE W

RECURSIVE SimulateMinutes(_, _, _)
\* at most k >= 1 iterations of the while loop of simulateDay: once the condition
\* fails the loop has ended, and the iterations left change nothing
SimulateMinutes(W, k, now) ==
    IF W = W /\ k > 1
    THEN SimulateMinutes(SimulateMinutes(W, FirstPart(k), now), k - FirstPart(k), now)
    ELSE SimulateMinute(W, now)

\* the while loop of simulateDay: each iteration adds a minute to a clock inside
\* the working hours, so it ends within (17 - 9) * 60 iterations
SimulateLoop(W, now) == SimulateMinutes(W, (WorkEndHour - WorkStartHour) * 60, now)

\* SimulationEngine.simulateDay: ret is <<the snapshot endDay() returned>>
simulateDay(W, now) == EndDayW(SimulateLoop([W EXCEPT !.ret = <<>>], now))

\* if (this.state.gameTime.hour >= 17) { results.push(this.state.endDay()); hour = 9 }
FastForwardDayEnd(W1) ==
    IF W1.state.gameTime.hour >= WorkEndHour
    THEN [EndDayW(W1) EXCEPT !.state.gameTime.hour = WorkStartHour]
    ELSE W1

\* the body of the for loop of fastForward
FastForwardStep(W, now) == FastForwardDayEnd(processMinute(W, now))

RECURSIVE FastForwardLoop(_, _, _)
FastForwardLoop(W, k, now) ==
    IF k = 0 THEN W
    ELSE Then(FastForwardStep(W, now), LAMBDA X : FastForwardLoop(X, k - 1, now))

\* SimulationEngine.fastForward(minutes): ret is the list of results
fastForward(W, minutes, now) == FastForwardLoop([W EXCEPT !.ret = <<>>], minutes, now)

(***************************************************************************)
(* Persistence: GameState.toJSON / loadFromJSON, SaveManager.              *)
(***************************************************************************)
\* Agent.toJSON: the current call is not part of the document
AgentToJSON(a) ==
    [id |-> a.id, name |-> a.name, skillTalktrack |-> a.skillTalktrack,
     speedWrapup |-> a.speedWrapup, complianceDiscipline |-> a.complianceDiscipline,
     resilience |-> a.resilience, charisma |-> a.charisma, consistency |-> a.consistency,
     fatigue |-> a.fatigue, morale |-> a.morale, state |-> a.state,
     stateTimeRemaining |-> a.stateTimeRemaining, trainingXP |-> a.trainingXP,
     dailyStats |-> a.dailyStats, lifetimeStats |-> a.lifetimeStats, hiredAt |-> a.hiredAt]

\* Agent.fromJSON: a new Agent (variance 0, so its draws do not matter) whose
\* saved fields are then overridden; currentCall keeps the constructor's null
AgentFromJSON(d) ==
    [id |-> d.id, name |-> d.name, skillTalktrack |-> d.skillTalktrack,
     speedWrapup |-> d.speedWrapup, complianceDiscipline |-> d.complianceDiscipline,
     resilience |-> d.resilience, charisma |-> d.charisma, consistency |-> d.consistency,
     fatigue |-> d.fatigue, morale |-> d.morale, state |-> d.state,
     stateTimeRemaining |-> d.stateTimeRemaining, currentCall |-> NoCall,
     trainingXP |-> d.trainingXP, dailyStats |-> d.dailyStats,
     lifetimeStats |-> d.lifetimeStats, hiredAt |-> d.hiredAt]

\* Lead.toJSON copies every field
LeadToJSON(l) == l

\* Lead.fromJSON: new Lead({...saved base values...}) with the default randomFn,
\* Math.random, whose draws are ra, rc (the jitter) and rm, re (the preferred
\* hours); then lastDialedAt, dialAttempts, maxDialAttempts, preferredHours,
\* status and convertedAt are overridden with the saved values
LeadFromJSON(d, ra, rc, rm, re) ==
    [NewLead(d.id, d.sourceId, d.baseAnswerProbability, d.baseConversionProbability,
             d.intentMultiplier, d.complianceRisk, d.freshnessDecayPerDay, d.createdAt,
             ra, rc, rm, re)
       EXCEPT !.lastDialedAt = d.lastDialedAt,
              !.dialAttempts = d.dialAttempts,
              !.maxDialAttempts = d.maxDialAttempts,
              !.preferredHours = d.preferredHours,
              !.status = d.status,
              !.convertedAt = d.convertedAt]

LeadPoolToJSON(pool) ==
    [leads |-> Array([i \in 1..Len(pool.leads) |-> LeadToJSON(pool.leads[i])]),
     sources |-> Array([i \in 1..Len(pool.sources) |->
                    [id |-> pool.sources[i].id, unlocked |-> pool.sources[i].unlocked]]),
     nextLeadId |-> pool.nextLeadId]

\* the saved unlocked flag of the entry with this id, else the configured one
SavedUnlocked(saved, config) ==
    LET idx == {i \in 1..Len(saved) : saved[i].id = config.id}
    IN  IF idx = {} THEN config.unlocked ELSE saved[CHOOSE i \in idx : TRUE].unlocked

\* LeadPool.loadFromJSON(data, sourceConfigs); c: the value of every Math.random()
\* call made while the leads are rebuilt
LeadPoolLoadFromJSON(d, sourceConfigs, c) ==
    [leads |-> Array([i \in 1..Len(d.leads) |-> LeadFromJSON(d.leads[i], c, c, c, c)]),
     sources |-> Array([i \in 1..Len(sourceConfigs) |->
                    [sourceConfigs[i] EXCEPT
                        !.unlocked = SavedUnlocked(d.sources, sourceConfigs[i])]]),
     nextLeadId |-> d.nextLeadId]

DialerManagerToJSON(dm) ==
    [dialers |-> Array([i \in 1..Len(dm.dialers) |->
                    [id |-> dm.dialers[i].id, unlocked |-> dm.dialers[i].unlocked]]),
     activeDialerId |-> dm.activeDialerId]

DialerManagerLoadFromJSON(d, dialerConfigs) ==
    [dialers |-> Array([i \in 1..Len(dialerConfigs) |->
                    [dialerConfigs[i] EXCEPT
                        !.unlocked = SavedUnlocked(d.dialers, dialerConfigs[i])]]),
     activeDialerId |-> d.activeDialerId]

\* GameState.toJSON; savedAt: Date.now()
toJSON(st, now) ==
    [version |-> 1, cash |-> st.cash, reputation |-> st.reputation,
     agents |-> Array([i \in 1..Len(st.agents) |-> AgentToJSON(st.agents[i])]),
     nextAgentId |-> st.nextAgentId,
     leadPool |-> LeadPoolToJSON(st.leadPool),
     dialerManager |-> DialerManagerToJSON(st.dialerManager),
     upgrades |-> st.upgrades, gameTime |-> st.gameTime,
     dailyStats |-> st.dailyStats, lifetimeStats |-> st.lifetimeStats,
     savedAt |-> now]

\* GameState.loadFromJSON(data, configs) on the game state st
loadFromJSON(st, d, c) ==
    [st EXCEPT
        !.cash = d.cash,
        !.reputation = d.reputation,
        !.agents = Array([i \in 1..Len(d.agents) |-> AgentFromJSON(d.agents[i])]),
        !.nextAgentId = d.nextAgentId,
        !.leadPool = LeadPoolLoadFromJSON(d.leadPool, SourceConfigs, c),
        !.dialerManager = DialerManagerLoadFromJSON(d.dialerManager, DialerConfigs),
        !.upgrades = d.upgrades,
        !.gameTime = d.gameTime,
        !.dailyStats = d.dailyStats,
        !.lifetimeStats = d.lifetimeStats]

(***************************************************************************)
(* UpgradeManager.                                                         *)
(***************************************************************************)
\* the upgrade catalog: passive bonuses, an upgrade behind a prerequisite, lead
\* packs naming a source, no source and a locked source, and a hiring upgrade
UpgradeConfigs ==
    << [id |-> "crm", baseCost |-> 100, costGrowthRate |-> Frac(3, 2), maxLevel |-> 2,
        prerequisites |-> {},
        effects |-> << [type |-> "answer_rate_bonus", value |-> Frac(5, 100), source |-> ""],
                       [type |-> "training_efficiency", value |-> Frac(1, 10), source |-> ""] >>],
       [id |-> "scripts", baseCost |-> 80, costGrowthRate |-> Frac(3, 2), maxLevel |-> 3,
        prerequisites |-> {"crm"},
        effects |-> << [type |-> "answer_rate_bonus", value |-> Frac(2, 100), source |-> ""],
                       [type |-> "new_agent_stat_bonus", value |-> Frac(5, 100), source |-> ""] >>],
       [id |-> "hot_pack", baseCost |-> 60, costGrowthRate |-> Frac(3, 2), maxLevel |-> 3,
        prerequisites |-> {},
        effects |-> << [type |-> "add_leads", value |-> 2, source |-> "hot"] >>],
       [id |-> "lead_pack", baseCost |-> 40, costGrowthRate |-> Frac(3, 2), maxLevel |-> 3,
        prerequisites |-> {},
        effects |-> << [type |-> "add_leads", value |-> 1, source |-> ""] >>],
       [id |-> "premium_pack", baseCost |-> 90, costGrowthRate |-> Frac(3, 2), maxLevel |-> 2,
        prerequisites |-> {},
        effects |-> << [type |-> "add_leads", value |-> 2, source |-> "premium"] >>],
       [id |-> "recruiter", baseCost |-> 200, costGrowthRate |-> Frac(2, 1), maxLevel |-> 1,
        prerequisites |-> {"scripts"},
        effects |-> << [type |-> "add_agent", value |-> 1, source |-> ""],
                       [type |-> "spam_reduction", value |-> Frac(1, 10), source |-> ""] >>] >>

\* this.configs.get(upgradeId): the entry's position, 0 when there is none
UpgradeIndex(upgradeId) ==
    LET idx == {i \in 1..Len(UpgradeConfigs) : UpgradeConfigs[i].id = upgradeId}
    IN  IF idx = {} THEN 0 ELSE CHOOSE i \in idx : TRUE

\* GameState.getUpgradeLevel: this.upgrades.get(upgradeId) || 0
getUpgradeLevel(st, upgradeId) ==
    IF upgradeId \in DOMAIN st.upgrades THEN st.upgrades[upgradeId] ELSE 0

\* GameState.setUpgradeLevel: this.upgrades.set(upgradeId, level)
setUpgradeLevel(st, upgradeId, level) ==
    [st EXCEPT !.upgrades = [id \in (DOMAIN @) \cup {upgradeId} |->
                                IF id = upgradeId THEN level ELSE @[id]]]

\* calculateUpgradeCost that forgets the level
calculateUpgradeCostFlat(baseCost, level, growthRate) == RoundDiv[baseCost * Scale, Scale]

\* Math.round(baseCost * Math.pow(growthRate, level)), growthRate Scale-d
calculateUpgradeCost(baseCost, level, growthRate) ==
    RoundDiv[baseCost * PowS(growthRate, level), Scale]

\* the Infinity getUpgradeCost returns: no amount of cash is >= it
Infinity == Null

\* UpgradeManager.getUpgradeCost
getUpgradeCost(st, upgradeId) ==
    LET i == UpgradeIndex(upgradeId)
    IN  IF i = 0 THEN Infinity
        ELSE IF getUpgradeLevel(st, upgradeId) >= UpgradeConfigs[i].maxLevel THEN Infinity
        ELSE calculateUpgradeCost(UpgradeConfigs[i].baseCost, getUpgradeLevel(st, upgradeId),
                                  UpgradeConfigs[i].costGrowthRate)

\* UpgradeManager.canAfford: this.state.cash >= this.getUpgradeCost(upgradeId)
canAfford(st, upgradeId) ==
    getUpgradeCost(st, upgradeId) # Infinity /\ st.cash >= getUpgradeCost(st, upgradeId)

\* canPurchase without the loop over the prerequisites
canPurchaseIgnoringPrerequisites(st, upgradeId) ==
    LET i == UpgradeIndex(upgradeId)
    IN  IF i = 0 THEN FALSE
        ELSE IF getUpgradeLevel(st, upgradeId) >= UpgradeConfigs[i].maxLevel THEN FALSE
        ELSE canAfford(st, upgradeId)

\* UpgradeManager.canPurchase
canPurchase(st, upgradeId) ==
    LET i == UpgradeIndex(upgradeId)
    IN  IF i = 0 THEN FALSE
        ELSE IF getUpgradeLevel(st, upgradeId) >= UpgradeConfigs[i].maxLevel THEN FALSE
        ELSE IF ~canAfford(st, upgradeId) THEN FALSE
        ELSE \A prereq \in UpgradeConfigs[i].prerequisites : getUpgradeLevel(st, prereq) >= 1

\* UpgradeManager.getNewAgentStats
getNewAgentStats(st) ==
    LET bonus == st.upgradeEffects.newAgentStatBonus
    IN  [skillTalktrack |-> Frac(4, 10) + bonus, speedWrapup |-> Frac(4, 10) + bonus,
         complianceDiscipline |-> Frac(5, 10) + bonus, resilience |-> Frac(5, 10) + bonus,
         charisma |-> Frac(3, 10) + bonus, consistency |-> Frac(4, 10) + bonus]

RECURSIVE HireAgents(_, _, _, _)
\* the loop of 'add_agent': <<state, generator>> after k more agents
HireAgents(st, k, g, t) ==
    IF k = 0 THEN <<st, g>>
    ELSE HireAgents(addAgent(st, getNewAgentStats(st), Frac(15, 100), g, t), k - 1,
                    Skip(g, AgentDraws), t)

\* one case of the switch of applyEffects, on <<state, generator>>
applyEffect(sg, effect, t) ==
    IF effect.type = "add_agent" THEN HireAgents(sg[1], effect.value, sg[2], t)
    ELSE IF effect.type = "add_leads"
    THEN LET p == generateLeads(sg[1].leadPool,
                                IF effect.source = "" THEN "standard_leads" ELSE effect.source,
                                effect.value, sg[2], t)
         IN  <<[sg[1] EXCEPT !.leadPool = p[1]], p[2]>>
    ELSE sg

RECURSIVE applyEffects(_, _, _)
\* UpgradeManager.applyEffects(effects, randomFn), on <<state, generator>>
applyEffects(sg, effects, t) ==
    IF effects = <<>> THEN sg
    ELSE applyEffects(applyEffect(sg, Head(effects), t), Tail(effects), t)

RECURSIVE EffectSum(_, _, _)
\* the inner loop of recalculateEffects: what one upgrade at this level adds to
\* the effect of this type
EffectSum(effects, type, level) ==
    IF effects = <<>> THEN 0
    ELSE (IF Head(effects).type = type THEN Head(effects).value * level ELSE 0)
            + EffectSum(Tail(effects), type, level)

RECURSIVE UpgradesSum(_, _, _)
\* the outer loop of recalculateEffects over the entries of this.state.upgrades
UpgradesSum(upgrades, ids, type) ==
    IF ids = {} THEN 0
    ELSE LET id == CHOOSE x \in ids : TRUE
             i == UpgradeIndex(id)
         IN  (IF i = 0 THEN 0 ELSE EffectSum(UpgradeConfigs[i].effects, type, upgrades[id]))
                + UpgradesSum(upgrades, ids \ {id}, type)

\* the effect type summed into each field of upgradeEffects
EffectTypeOf ==
    [answerRateBonus |-> "answer_rate_bonus", spamReduction |-> "spam_reduction",
     leadRoutingEfficiency |-> "lead_routing_efficiency",
     trainingEfficiency |-> "training_efficiency",
     fatigueRecoveryBonus |-> "fatigue_recovery_bonus",
     fatigueGainReduction |-> "fatigue_gain_reduction",
     newAgentStatBonus |-> "new_agent_stat_bonus",
     globalSkillTalktrack |-> "global_skill_talktrack",
     globalCompliance |-> "global_compliance",
     globalSpeedWrapup |-> "global_speed_wrapup",
     globalConsistency |-> "global_consistency"]

\* recalculateEffects leaving the cached effects as they are
recalculateEffectsSkipped(st) == st

\* UpgradeManager.recalculateEffects
recalculateEffects(st) ==
    [st EXCEPT !.upgradeEffects =
        [f \in DOMAIN EffectTypeOf |-> UpgradesSum(st.upgrades, DOMAIN st.upgrades, EffectTypeOf[f])]]

\* purchase with the cost read after the level was raised
purchaseCostAfterLevel(st, g, upgradeId, t) ==
    IF ~canPurchase(st, upgradeId) THEN <<FALSE, st, g>>
    ELSE LET levelled == setUpgradeLevel(st, upgradeId, getUpgradeLevel(st, upgradeId) + 1)
             cost == getUpgradeCost(levelled, upgradeId)
             paid == adjustCash(levelled, 0 - cost)
             applied == applyEffects(<<paid, g>>, UpgradeConfigs[UpgradeIndex(upgradeId)].effects, t)
         IN  <<TRUE, recalculateEffects(applied[1]), applied[2]>>

\* UpgradeManager.purchase(upgradeId, randomFn) with randomFn drawing from
\* generator g: <<returned value, state, generator>>
purchase(st, g, upgradeId, t) ==
    IF ~canPurchase(st, upgradeId) THEN <<FALSE, st, g>>
    ELSE LET cost == getUpgradeCost(st, upgradeId)
             paid == adjustCash(st, 0 - cost)
             levelled == setUpgradeLevel(paid, upgradeId, getUpgradeLevel(paid, upgradeId) + 1)
             applied == applyEffects(<<levelled, g>>, UpgradeConfigs[UpgradeIndex(upgradeId)].effects, t)
         IN  <<TRUE, recalculateEffects(applied[1]), applied[2]>>

(***************************************************************************)
(* The program as a state machine: a Game facade over one GameState and    *)
(* one SimulationEngine, driven by calls and by the wall clock.            *)
(***************************************************************************)
\* bounds of the exploration
MaxCalls == 3
MaxAgents == 2
MaxLeads == 3
MaxFF == 2
MaxWallDays == 40
MaxPurchases == 5

\* seeds handed to the SimulationEngine and to the set-up's SeededRNG
Seeds == {7, 42}
SetupSeed == 12345
\* game minutes already on the clock when exploration starts: 9:00, 16:58, 23:58
StartOffsets == {0, 478, 898}
\* wall-clock readings (hours since the set-up)
WallClocks == {0, MaxWallDays * WallUnitsPerDay}

VARIABLES state, rng, callbacks, obs, ret, isRunning, tickInterval, timers,
          storage, now, pre, lastOp, calls

vars == <<state, rng, callbacks, obs, ret, isRunning, tickInterval, timers,
          storage, now, pre, lastOp, calls, configs>>

\* the configured timings: the dial duration of the engine test's defaults
DefaultConfigs == [call |-> [dialDurationSeconds |-> DialDurationSeconds]]

\* the engine and the state it holds, as one value
Eng == [state |-> state, rng |-> rng, callbacks |-> callbacks, obs |-> obs, ret |-> ret]

SetEng(W) ==
    /\ state' = W.state
    /\ rng' = W.rng
    /\ callbacks' = W.callbacks
    /\ obs' = W.obs
    /\ ret' = W.ret

RECURSIVE AddAgents(_, _, _, _)
AddAgents(st, k, g, t) ==
    IF k = 0 THEN st
    ELSE AddAgents(addAgent(st, DefaultBaseStats, Frac(1, 10), g, t), k - 1,
                   Skip(g, AgentDraws), t)

\* Game.setupNewGame / the engine test's set-up: dialers, lead sources, agents
\* and leads (hot first, then standard) created from one SeededRNG
SetupNewGame(nAgents, nLeads, t) ==
    LET g0 == NewRNG(SetupSeed)
        s1 == [NewGameState EXCEPT
                  !.dialerManager.dialers = DialerConfigs,
                  !.leadPool.sources = SourceConfigs]
        s2 == AddAgents(s1, nAgents, g0, t)
        g2 == Skip(g0, nAgents * AgentDraws)
        p1 == generateLeads(s2.leadPool, "hot", 1, g2, t)
        p2 == generateLeads(p1[1], "standard_leads", nLeads - 1, p1[2], t)
    IN  [s2 EXCEPT !.leadPool = p2[1]]

Operations == {"new", "start", "pause", "tick", "processMinute", "fastForward",
               "simulateDay", "Game.simulateDay", "on", "timer", "save", "load",
               "trainAgent", "storage", "init",
               "unlockDialer", "setDialer", "purchase", "startBreak",
               "adjustReputation", "advanceTime", "endDay",
               "adjustCash", "managerUnlock",
               "getNextLead", "generateLeads",
               "random", "randomInt", "chance",
               "calculateUpgradeCost", "calculateAnswerProbability",
               "calculateConversionProbability", "compareReputations",
               "adjustFatigue", "adjustMorale", "setSpeed", "resetGame"}

\* the game state st under a new engine, nothing called yet
InitOf(st) ==
    \E seed \in Seeds :
        /\ state = st
        /\ rng = NewRNG(seed)
        /\ callbacks = [e \in CallbackEvents |-> FALSE]
        /\ obs = NoObservations
        /\ ret = <<>>
        /\ isRunning = FALSE
        /\ tickInterval = FALSE
        /\ timers = 0
        /\ storage = <<>>
        /\ now = 0
        /\ pre = state
        /\ lastOp = "new"
        /\ calls = 0

\* the new game, with some minutes already on its clock
InitGame ==
    \E offset \in StartOffsets : InitOf(advanceTime(SetupNewGame(MaxAgents, MaxLeads, 0), offset))

\* a new game under the default configuration
Init == InitGame /\ configs = DefaultConfigs

\* the dial durations a defaults document may configure, in seconds
DialDurations == {DialDurationSeconds, 5}

\* a new game under a configuration with one of these dial durations
InitTimings ==
    /\ InitGame
    /\ \E d \in DialDurations : configs = [call |-> [dialDurationSeconds |-> d]]

\* one more call is made; the state it starts from is remembered
Called(op, bound) ==
    /\ calls < bound
    /\ calls' = calls + 1
    /\ lastOp' = op
    /\ pre' = state
    /\ configs' = configs

\* Game.start
Start ==
    /\ ~isRunning
    /\ Called("start", MaxCalls)
    /\ isRunning' = TRUE
    /\ tickInterval' = TRUE
    /\ timers' = timers + 1
    /\ state' = [state EXCEPT !.isPaused = FALSE]
    /\ ret' = <<>>
    /\ UNCHANGED <<rng, callbacks, obs, storage, now>>

\* the intervals scheduled after if (this.tickInterval) clearInterval(this.tickInterval)
Cleared == IF tickInterval THEN timers - 1 ELSE timers

\* a pause that keeps its interval: isRunning and isPaused are set, nothing is cleared
PauseKeepsInterval ==
    /\ Called("pause", MaxCalls)
    /\ isRunning' = FALSE
    /\ state' = [state EXCEPT !.isPaused = TRUE]
    /\ ret' = <<>>
    /\ UNCHANGED <<rng, callbacks, obs, tickInterval, timers, storage, now>>

\* Game.pause
Pause ==
    /\ Called("pause", MaxCalls)
    /\ isRunning' = FALSE
    /\ tickInterval' = FALSE
    /\ timers' = Cleared
    /\ state' = [state EXCEPT !.isPaused = TRUE]
    /\ ret' = <<>>
    /\ UNCHANGED <<rng, callbacks, obs, storage, now>>

\* the speed multipliers of the speed buttons
Speeds == {1, 2, 5}

\* Game.setSpeed(multiplier): the multiplier is set; a running game is paused
\* and started again
SetSpeed ==
    \E multiplier \in Speeds :
        /\ Called("setSpeed", MaxCalls)
        /\ state' = [state EXCEPT !.speedMultiplier = multiplier,
                                  !.isPaused = IF isRunning THEN FALSE ELSE @]
        /\ isRunning' = isRunning
        /\ tickInterval' = (isRunning \/ tickInterval)
        /\ timers' = IF isRunning THEN Cleared + 1 ELSE timers
        /\ ret' = <<>>
        /\ UNCHANGED <<rng, callbacks, obs, storage, now>>

\* Game.resetGame: pause(), deleteSave(), a new GameState with setupNewGame()
\* and a new engine seeded by Date.now()
ResetGame ==
    \E seed \in Seeds :
        /\ Called("resetGame", MaxCalls)
        /\ isRunning' = FALSE
        /\ tickInterval' = FALSE
        /\ timers' = Cleared
        /\ SetEng(NewEngine(SetupNewGame(MaxAgents, MaxLeads, now), seed))
        /\ storage' = <<>>
        /\ UNCHANGED now

\* engine.on(event, callback)
On ==
    \E e \in {"onMinute", "onDayEnd"} :
        /\ ~callbacks[e]
        /\ Called("on", MaxCalls)
        /\ SetEng([on(Eng, e) EXCEPT !.ret = <<>>])
        /\ UNCHANGED <<isRunning, tickInterval, timers, storage, now>>

\* engine.tick()
Tick ==
    /\ Called("tick", MaxCalls)
    /\ SetEng([tick(Eng, now) EXCEPT !.ret = <<>>])
    /\ UNCHANGED <<isRunning, tickInterval, timers, storage, now>>

\* engine.processMinute()
ProcessMinute ==
    /\ Called("processMinute", MaxCalls)
    /\ SetEng([processMinute(Eng, now) EXCEPT !.ret = <<>>])
    /\ UNCHANGED <<isRunning, tickInterval, timers, storage, now>>

\* the minutes of a run in which processMinute() keeps being called
MaxMinutes == 8

\* engine.processMinute(), called again and again
KeepProcessingMinutes ==
    /\ ~state.isPaused
    /\ Called("processMinute", MaxMinutes)
    /\ SetEng([processMinute(Eng, now) EXCEPT !.ret = <<>>])
    /\ UNCHANGED <<isRunning, tickInterval, timers, storage, now>>

\* engine.fastForward(minutes)
FastForward ==
    \E minutes \in 1..MaxFF :
        /\ Called("fastForward", MaxCalls)
        /\ SetEng(fastForward(Eng, minutes, now))
        /\ UNCHANGED <<isRunning, tickInterval, timers, storage, now>>

\* engine.simulateDay()
SimulateDay ==
    /\ Called("simulateDay", MaxCalls)
    /\ SetEng(simulateDay(Eng, now))
    /\ UNCHANGED <<isRunning, tickInterval, timers, storage, now>>

\* Game.simulateDay(): this.pause(); return this.engine.simulateDay()
GameSimulateDay ==
    /\ Called("Game.simulateDay", MaxCalls)
    /\ isRunning' = FALSE
    /\ tickInterval' = FALSE
    /\ timers' = Cleared
    /\ SetEng(simulateDay([Eng EXCEPT !.state.isPaused = TRUE], now))
    /\ UNCHANGED <<storage, now>>

\* Game.trainAgent(agentId, skill) on the game state: <<returned value, state left>>
trainAgent(st, agentId, skill) ==
    LET idx == {i \in 1..Len(st.agents) : st.agents[i].id = agentId}
        i == CHOOSE j \in idx : TRUE
    IN  IF idx = {} \/ ~isAvailable(st.agents[i]) THEN <<FALSE, st>>
        ELSE IF st.cash < TrainingConfig.sessionCost THEN <<FALSE, st>>
        ELSE <<TRUE, [adjustCash(st, 0 - TrainingConfig.sessionCost) EXCEPT
                         !.agents[i] = startTraining(@, skill,
                                           TrainingConfig.sessionDurationMinutes * 60)]>>

\* the skills a session is booked for
TrainSkills == {"skillTalktrack", "resilience"}

\* Game.trainAgent(agentId, skill)
TrainAgent ==
    \E agentId \in 1..MaxAgents, skill \in TrainSkills :
        /\ Called("trainAgent", MaxCalls)
        /\ state' = trainAgent(state, agentId, skill)[2]
        /\ ret' = <<trainAgent(state, agentId, skill)[1]>>
        /\ UNCHANGED <<rng, callbacks, obs, isRunning, tickInterval, timers, storage, now>>

\* Game.unlockDialer(dialerId): <<returned value, the state afterwards>>
unlockDialer(st, dialerId) ==
    LET i == DialerIndex(st.dialerManager, dialerId)
    IN  IF i = 0 THEN <<FALSE, st>>
        ELSE IF st.cash >= st.dialerManager.dialers[i].unlockCost
        THEN LET paid == adjustCash(st, 0 - st.dialerManager.dialers[i].unlockCost)
                 u == DialerManagerUnlock(paid.dialerManager, dialerId)
             IN  <<u[1], [paid EXCEPT !.dialerManager = u[2]]>>
        ELSE <<FALSE, st>>

\* the dialer ids a caller passes: the configured ones and one that is unknown
DialerIds == {DialerConfigs[i].id : i \in 1..Len(DialerConfigs)} \cup {"power"}

\* Game.unlockDialer(dialerId)
UnlockDialer ==
    \E dialerId \in DialerIds :
        /\ Called("unlockDialer", MaxCalls)
        /\ state' = unlockDialer(state, dialerId)[2]
        /\ ret' = <<unlockDialer(state, dialerId)[1]>>
        /\ UNCHANGED <<rng, callbacks, obs, isRunning, tickInterval, timers, storage, now>>

\* dialerManager.unlockDialer(dialerId): ret is <<returned value, dialerId>>
ManagerUnlockDialer ==
    \E dialerId \in DialerIds :
        /\ Called("managerUnlock", MaxCalls)
        /\ state' = [state EXCEPT !.dialerManager = DialerManagerUnlock(@, dialerId)[2]]
        /\ ret' = <<DialerManagerUnlock(state.dialerManager, dialerId)[1], dialerId>>
        /\ UNCHANGED <<rng, callbacks, obs, isRunning, tickInterval, timers, storage, now>>

\* the hours a caller passes to getNextLead: in the day, in the evening
LeadHours == {10, 20}

\* leadPool.getNextLead(hourOfDay, rng): ret is <<id of the lead or 0, hourOfDay>>
GetNextLead ==
    \E hourOfDay \in LeadHours :
        /\ Called("getNextLead", MaxCalls)
        /\ ret' = <<getNextLead(state.leadPool, hourOfDay, rng, now), hourOfDay>>
        /\ rng' = IF getNextLead(state.leadPool, hourOfDay, rng, now) = 0 THEN rng ELSE Skip(rng, 1)
        /\ UNCHANGED <<state, callbacks, obs, isRunning, tickInterval, timers, storage, now>>

\* the sources a caller names: unlocked ones, a locked one, an unknown one
SourceIds == {SourceConfigs[i].id : i \in 1..Len(SourceConfigs)} \cup {"unknown"}

\* the numbers of leads a caller asks for
LeadCounts == {0, 1, 3}

\* leadPool.generateLeads(sourceId, count, rng):
\* ret is <<ids of the returned leads, sourceId, count>>
GenerateLeads ==
    \E sourceId \in SourceIds, count \in LeadCounts :
        /\ Called("generateLeads", MaxCalls)
        /\ state' = [state EXCEPT !.leadPool = generateLeads(@, sourceId, count, rng, now)[1]]
        /\ rng' = generateLeads(state.leadPool, sourceId, count, rng, now)[2]
        /\ ret' = <<GeneratedIds(state.leadPool, sourceId, count), sourceId, count>>
        /\ UNCHANGED <<callbacks, obs, isRunning, tickInterval, timers, storage, now>>

\* Game.setDialer(dialerId): ret is <<returned value, dialerId>>
SetDialer ==
    \E dialerId \in DialerIds :
        /\ Called("setDialer", MaxCalls)
        /\ state' = [state EXCEPT !.dialerManager = setActiveDialer(@, dialerId)[2]]
        /\ ret' = <<setActiveDialer(state.dialerManager, dialerId)[1], dialerId>>
        /\ UNCHANGED <<rng, callbacks, obs, isRunning, tickInterval, timers, storage, now>>

\* the upgrade ids a caller passes: the catalog's and one that is unknown
UpgradeIds == {UpgradeConfigs[i].id : i \in 1..Len(UpgradeConfigs)} \cup {"unknown"}

\* Game.purchaseUpgrade(upgradeId): purchase with the engine's generator
PurchaseUpgrade ==
    \E upgradeId \in UpgradeIds :
        /\ Called("purchase", MaxPurchases)
        /\ state' = purchase(state, rng, upgradeId, now)[2]
        /\ rng' = purchase(state, rng, upgradeId, now)[3]
        /\ ret' = <<purchase(state, rng, upgradeId, now)[1], upgradeId>>
        /\ UNCHANGED <<callbacks, obs, isRunning, tickInterval, timers, storage, now>>

\* the lengths of a break a caller passes to Agent.startBreak, in seconds
BreakDurations == {30, 45}

\* the deltas a caller passes to adjustFatigue and adjustMorale, Scale-d:
\* far below and above the range, and small ones
LevelDeltas == {0 - 5 * Scale, 0 - Frac(1, 10), Frac(45, 100), 5 * Scale}

\* agent.adjustFatigue(delta)
AdjustFatigue ==
    \E i \in 1..Len(state.agents), delta \in LevelDeltas :
        /\ Called("adjustFatigue", MaxCalls)
        /\ state' = [state EXCEPT !.agents[i] = adjustFatigue(@, delta)]
        /\ ret' = <<delta>>
        /\ UNCHANGED <<rng, callbacks, obs, isRunning, tickInterval, timers, storage, now>>

\* agent.adjustMorale(delta)
AdjustMorale ==
    \E i \in 1..Len(state.agents), delta \in LevelDeltas :
        /\ Called("adjustMorale", MaxCalls)
        /\ state' = [state EXCEPT !.agents[i] = adjustMorale(@, delta)]
        /\ ret' = <<delta>>
        /\ UNCHANGED <<rng, callbacks, obs, isRunning, tickInterval, timers, storage, now>>

\* agent.startBreak(breakDurationSeconds) on an available agent
StartBreak ==
    \E i \in 1..Len(state.agents), d \in BreakDurations :
        /\ isAvailable(state.agents[i])
        /\ Called("startBreak", MaxCalls)
        /\ state' = [state EXCEPT !.agents[i] = startBreak(@, d)]
        /\ ret' = <<>>
        /\ UNCHANGED <<rng, callbacks, obs, isRunning, tickInterval, timers, storage, now>>

\* the deltas a caller passes to adjustReputation, in RepScale units: far below
\* and far above the range, -74.5 and +0.3
ReputationDeltas == {0 - 1000 * RepScale, 0 - (74 * RepScale + RepScale \div 2), 3, 1000 * RepScale}

\* state.adjustReputation(amount)
AdjustReputation ==
    \E amount \in ReputationDeltas :
        /\ Called("adjustReputation", MaxCalls)
        /\ state' = adjustReputation(state, amount)
        /\ ret' = <<>>
        /\ UNCHANGED <<rng, callbacks, obs, isRunning, tickInterval, timers, storage, now>>

\* the minutes a caller passes to advanceTime: over the hour, and more than a day
AdvanceMinutes == {61, 1500}

\* state.advanceTime(minutes)
AdvanceTime ==
    \E minutes \in AdvanceMinutes :
        /\ Called("advanceTime", MaxCalls)
        /\ SetEng([AdvanceTimeW(Eng, minutes) EXCEPT !.ret = <<>>])
        /\ UNCHANGED <<isRunning, tickInterval, timers, storage, now>>

\* state.endDay(): ret is <<the snapshot it returned>>
EndDay ==
    /\ Called("endDay", MaxCalls)
    /\ SetEng(EndDayW([Eng EXCEPT !.ret = <<>>]))
    /\ UNCHANGED <<isRunning, tickInterval, timers, storage, now>>

\* the amounts a caller passes to adjustCash: the test's revenue and cost, nothing
CashAmounts == {100, 0 - 50, 0}

\* state.adjustCash(amount): ret is <<the amount passed>>
AdjustCash ==
    \E amount \in CashAmounts :
        /\ Called("adjustCash", MaxCalls)
        /\ state' = adjustCash(state, amount)
        /\ ret' = <<amount>>
        /\ UNCHANGED <<rng, callbacks, obs, isRunning, tickInterval, timers, storage, now>>

\* time passes on the wall clock
WallClockPasses ==
    /\ \E t \in WallClocks : t > now /\ now' = t
    /\ UNCHANGED <<state, rng, callbacks, obs, ret, isRunning, tickInterval, timers, storage,
                   pre, lastOp, calls, configs>>

\* the engine driven call by call: ticks, minutes and fast-forwards
Next ==
    \/ Start
    \/ Pause
    \/ On
    \/ Tick
    \/ ProcessMinute
    \/ FastForward
    \/ WallClockPasses

Spec == Init /\ [][Next]_vars

\* whole days simulated in one call, on the engine and through the facade
NextDay ==
    \/ Start
    \/ On
    \/ ProcessMinute
    \/ SimulateDay
    \/ GameSimulateDay

SpecDay == Init /\ [][NextDay]_vars

\* the shop: dialers unlocked and chosen, agents trained, minutes played
NextShop ==
    \/ UnlockDialer
    \/ SetDialer
    \/ TrainAgent
    \/ ProcessMinute

SpecShop == Init /\ [][NextShop]_vars

\* agents dialing, on calls, on breaks and in training while ticks run, under
\* each configured dial duration
NextTimings ==
    \/ Start
    \/ Tick
    \/ ProcessMinute
    \/ StartBreak
    \/ TrainAgent

SpecTimings == InitTimings /\ [][NextTimings]_vars

\* reputation moved by callers and by the penalties of the ticks
NextReputation ==
    \/ Start
    \/ Tick
    \/ ProcessMinute
    \/ AdjustReputation

\* the state after Game.unlockDialer(dialerId) and Game.setDialer(dialerId)
WithDialer(st, dialerId) ==
    [unlockDialer(st, dialerId)[2] EXCEPT
        !.dialerManager = setActiveDialer(@, dialerId)[2]]

\* a new game in which the manual dialer was kept, or the predictive dialer
\* (which abandons calls) was bought and made active
InitReputation ==
    /\ \E offset \in StartOffsets, dialerId \in {"manual", "predictive"} :
          InitOf(WithDialer(advanceTime(SetupNewGame(MaxAgents, MaxLeads, 0), offset), dialerId))
    /\ configs = DefaultConfigs

SpecReputation == InitReputation /\ [][NextReputation]_vars

\* the clock moved by advanceTime, by minutes, by fast-forwards and by whole days
NextClock ==
    \/ Start
    \/ AdvanceTime
    \/ ProcessMinute
    \/ FastForward
    \/ SimulateDay

SpecClock == Init /\ [][NextClock]_vars

\* days ended by the caller, after minutes of dialing and training sessions
NextEndDay ==
    \/ Start
    \/ ProcessMinute
    \/ TrainAgent
    \/ EndDay

SpecEndDay == Init /\ [][NextEndDay]_vars

\* the leads of the large pool: enough for a top fifth of two
PoolLeads == 10

\* the game of setupNewGame before its starting leads are added
BeforeStartingLeads ==
    [SetupNewGame(MaxAgents, 1, 0) EXCEPT !.leadPool.leads = <<>>, !.leadPool.nextLeadId = 1]

\* a new game with the small pool or the large one, or one without leads yet
InitLeads ==
    /\ \/ \E nLeads \in {MaxLeads, PoolLeads} : InitOf(SetupNewGame(MaxAgents, nLeads, 0))
       \/ InitOf(BeforeStartingLeads)
    /\ configs = DefaultConfigs

\* leads asked for between minutes and days of dialing
NextLeads ==
    \/ Start
    \/ ProcessMinute
    \/ SimulateDay
    \/ GetNextLead
    \/ GenerateLeads

SpecLeads == InitLeads /\ [][NextLeads]_vars

\* agents dialing, on calls, on breaks and in training, over minutes and days
NextAgents ==
    \/ Start
    \/ Tick
    \/ ProcessMinute
    \/ SimulateDay
    \/ StartBreak
    \/ TrainAgent

SpecAgents == InitTimings /\ [][NextAgents]_vars

\* the seeds two generators are constructed with: zero, small, the test's,
\* negative, and the largest 32-bit integer
RngSeeds == {0, 42, 12345, 0 - 7, (Half \div 2 - 1) * Half + (Half - 1)}

\* the draws made of each generator
MaxDraws == 1000

\* const rng1 = new SeededRNG(seed); const rng2 = new SeededRNG(seed): rng is
\* rng1, ret is <<rng2, the words random() divided in rng1 and in rng2, the
\* values returned by rng1 and by rng2>>
InitRNG ==
    /\ \E seed \in RngSeeds :
          /\ rng = NewRNG(seed)
          /\ ret = <<NewRNG(seed), <<>>, <<>>, <<>>, <<>>>>
    /\ state = NewGameState
    /\ callbacks = [e \in CallbackEvents |-> FALSE]
    /\ obs = NoObservations
    /\ isRunning = FALSE
    /\ tickInterval = FALSE
    /\ timers = 0
    /\ storage = <<>>
    /\ now = 0
    /\ pre = state
    /\ lastOp = "new"
    /\ calls = 0
    /\ configs = DefaultConfigs

\* both generators after the same call, which returns Value(word) of the word drawn
BothDraw(op, Value(_)) ==
    /\ Called(op, MaxDraws)
    /\ rng' = RngAdvance(rng)
    /\ ret' = <<RngAdvance(ret[1]), RngWord(rng), RngWord(ret[1]),
                Value(RngWord(rng)), Value(RngWord(ret[1]))>>
    /\ UNCHANGED <<state, callbacks, obs, isRunning, tickInterval, timers, storage, now>>

\* rng1.random(); rng2.random()
BothRandom == BothDraw("random", LAMBDA w : w)

\* rng1.randomInt(1, 6); rng2.randomInt(1, 6)
BothRandomInt == BothDraw("randomInt", LAMBDA w : FloorOf(w, 6) + 1)

\* rng1.chance(0.5); rng2.chance(0.5)
BothChance == BothDraw("chance", LAMBDA w : FloorOf(w, Scale) < Frac(1, 2))

NextRNG ==
    \/ BothRandom
    \/ BothRandomInt
    \/ BothChance

SpecRNG == InitRNG /\ [][NextRNG]_vars

\* the base costs and growth rates a catalog may configure: the smallest
\* costs, the test's, and rates from just above 1 to 2
BaseCosts == 1..20 \cup {100}
GrowthRates == {Frac(11, 10), Frac(5, 4), Frac(3, 2), 2 * Scale}

\* the levels an upgrade is priced at
MaxLevel == 6

\* an upgrade of some base cost and growth rate priced at level 0:
\* ret is <<baseCost, growthRate, level, the cost at the level before, the cost>>
InitCost ==
    /\ \E baseCost \in BaseCosts, growthRate \in GrowthRates :
          ret = <<baseCost, growthRate, 0, Null, calculateUpgradeCost(baseCost, 0, growthRate)>>
    /\ rng = NewRNG(SetupSeed)
    /\ state = NewGameState
    /\ callbacks = [e \in CallbackEvents |-> FALSE]
    /\ obs = NoObservations
    /\ isRunning = FALSE
    /\ tickInterval = FALSE
    /\ timers = 0
    /\ storage = <<>>
    /\ now = 0
    /\ pre = state
    /\ lastOp = "new"
    /\ calls = 0
    /\ configs = DefaultConfigs

\* Formulas.calculateUpgradeCost(baseCost, level + 1, growthRate)
CostOfNextLevel ==
    /\ Called("calculateUpgradeCost", MaxLevel)
    /\ ret' = <<ret[1], ret[2], ret[3] + 1, ret[5],
                calculateUpgradeCost(ret[1], ret[3] + 1, ret[2])>>
    /\ UNCHANGED <<state, rng, callbacks, obs, isRunning, tickInterval, timers, storage, now>>

NextCost == \/ CostOfNextLevel

SpecCost == InitCost /\ [][NextCost]_vars

\* the factors a caller passes to the probability formulas, Scale-d: negative,
\* nothing, neutral, and far beyond what the catalog holds
Factors == {0 - 5 * Scale, 0, Scale, 5 * Scale}

\* the bonuses (added to 1) and the probabilities and levels in 0..1 a caller passes
Bonuses == {0 - 5 * Scale, 0, Frac(1, 2), 4 * Scale}

\* the reputations a caller passes, RepScale-d
Reputations == {0 - 100 * RepScale, 0, 100 * RepScale, 500 * RepScale}

\* a caller about to evaluate one of the two formulas, no game set up:
\* ret is <<the formula, its arguments in the order of the parameters>>
InitInputs ==
    /\ \/ \E baseAnswerProb \in Factors, leadIntent \in Factors, timeWindowFactor \in Factors,
             reputation \in Reputations, dialerConnectMultiplier \in Factors,
             localPresenceBonus \in Bonuses, spamTagProbability \in Bonuses :
             ret = <<"answer", baseAnswerProb, leadIntent, timeWindowFactor, reputation,
                     dialerConnectMultiplier, localPresenceBonus, spamTagProbability>>
       \/ \E baseConversionProb \in Factors, agentMultiplier \in Factors, fatigue \in Bonuses,
             dialerQAMultiplier \in Factors, leadRoutingBonus \in Bonuses, morale \in Bonuses :
             ret = <<"conversion", baseConversionProb, agentMultiplier, fatigue,
                     dialerQAMultiplier, leadRoutingBonus, morale>>
    /\ state = NewGameState
    /\ rng = NewRNG(SetupSeed)
    /\ callbacks = [e \in CallbackEvents |-> FALSE]
    /\ obs = NoObservations
    /\ isRunning = FALSE
    /\ tickInterval = FALSE
    /\ timers = 0
    /\ storage = <<>>
    /\ now = 0
    /\ pre = state
    /\ lastOp = "new"
    /\ calls = 0
    /\ configs = DefaultConfigs

\* Formulas.calculateAnswerProbability({...}): ret is <<the value, the arguments>>
CalculateAnswerProbability ==
    /\ Len(ret) = 8
    /\ ret[1] = "answer"
    /\ Called("calculateAnswerProbability", MaxCalls)
    /\ ret' = <<calculateAnswerProbability(ret[2], ret[3], ret[4], ret[5], ret[6], ret[7], ret[8]),
                Tail(ret)>>
    /\ UNCHANGED <<state, rng, callbacks, obs, isRunning, tickInterval, timers, storage, now>>

\* Formulas.calculateConversionProbability({...}): ret is <<the value, the arguments>>
CalculateConversionProbability ==
    /\ Len(ret) = 7
    /\ ret[1] = "conversion"
    /\ Called("calculateConversionProbability", MaxCalls)
    /\ ret' = <<calculateConversionProbability(ret[2], ret[3], ret[4], ret[5], ret[6], ret[7]),
                Tail(ret)>>
    /\ UNCHANGED <<state, rng, callbacks, obs, isRunning, tickInterval, timers, storage, now>>

\* the formulas evaluated on a caller's arguments, and by the engine for its draws
NextProbabilities ==
    \/ CalculateAnswerProbability
    \/ CalculateConversionProbability
    \/ ret = <<>> /\ Start
    \/ ret = <<>> /\ ProcessMinute

SpecProbabilities == (Init \/ InitInputs) /\ [][NextProbabilities]_vars

\* the other arguments of the answer formula when two reputations are compared:
\* negative, nothing, the tests' 0.2, neutral, and large
OtherFactors == {0 - Scale, 0, Frac(2, 10), Scale, 2 * Scale}
OtherBonuses == {0, Frac(1, 2)}

\* the reputations compared, RepScale-d, all in [0, 100]
ComparedReputations == {0, 20 * RepScale, 50 * RepScale, 100 * RepScale}

\* a caller about to compare two reputations under the same other arguments:
\* ret is <<baseAnswerProb, leadIntent, timeWindowFactor, dialerConnectMultiplier,
\* localPresenceBonus, spamTagProbability>>
InitCompare ==
    /\ \E baseAnswerProb \in OtherFactors, leadIntent \in OtherFactors,
          timeWindowFactor \in OtherFactors, dialerConnectMultiplier \in OtherFactors,
          localPresenceBonus \in OtherBonuses, spamTagProbability \in OtherBonuses :
          ret = <<baseAnswerProb, leadIntent, timeWindowFactor, dialerConnectMultiplier,
                  localPresenceBonus, spamTagProbability>>
    /\ state = NewGameState
    /\ rng = NewRNG(SetupSeed)
    /\ callbacks = [e \in CallbackEvents |-> FALSE]
    /\ obs = NoObservations
    /\ isRunning = FALSE
    /\ tickInterval = FALSE
    /\ timers = 0
    /\ storage = <<>>
    /\ now = 0
    /\ pre = state
    /\ lastOp = "new"
    /\ calls = 0
    /\ configs = DefaultConfigs

\* calculateAnswerProbability at reputations r1 < r2, the rest equal:
\* ret is <<the value at r1, the value at r2, r1, r2, the other arguments>>
CompareReputations ==
    \E r1 \in ComparedReputations, r2 \in ComparedReputations :
        /\ r1 < r2
        /\ Len(ret) = 6
        /\ Called("compareReputations", MaxCalls)
        /\ ret' = <<calculateAnswerProbability(ret[1], ret[2], ret[3], r1, ret[4], ret[5], ret[6]),
                    calculateAnswerProbability(ret[1], ret[2], ret[3], r2, ret[4], ret[5], ret[6]),
                    r1, r2, ret>>
        /\ UNCHANGED <<state, rng, callbacks, obs, isRunning, tickInterval, timers, storage, now>>

NextCompare == \/ CompareReputations

SpecCompare == InitCompare /\ [][NextCompare]_vars

\* dialers unlocked, through the game and on the manager, and made active
NextDialers ==
    \/ ManagerUnlockDialer
    \/ UnlockDialer
    \/ SetDialer

SpecDialers == Init /\ [][NextDialers]_vars

\* money earned by conversions and spent on upgrades, dialers and training
NextBooks ==
    \/ Start
    \/ ProcessMinute
    \/ PurchaseUpgrade
    \/ UnlockDialer
    \/ TrainAgent
    \/ AdjustCash

\* a new game at 9:00 of the first day
InitBooks ==
    /\ InitOf(SetupNewGame(MaxAgents, MaxLeads, 0))
    /\ configs = DefaultConfigs

SpecBooks == InitBooks /\ [][NextBooks]_vars

\* the dials per minute and agent a catalog may give the starting dialer
DialRates == {3, 6, 12}

\* a new game with one lead or the small pool, under a slow, the usual or a
\* fast starting dialer
InitDialing ==
    /\ \E nLeads \in {1, MaxLeads}, rate \in DialRates :
          InitOf([SetupNewGame(MaxAgents, nLeads, 0) EXCEPT
                     !.dialerManager.dialers[1].dialsPerMinutePerAgent = rate])
    /\ configs = DefaultConfigs

\* ticks of dialing, with agents sent on a break
NextDialing ==
    \/ Start
    \/ Tick
    \/ ProcessMinute
    \/ StartBreak

SpecDialing == InitDialing /\ [][NextDialing]_vars

\* game minutes already on the clock: 9:00, 16:59, 23:59
ClosingOffsets == {0, 479, 899}

\* a new game before opening, at the last minute of work or of the day, with
\* the catalog's dialers or with a catalog that holds none
InitClosing ==
    /\ \E offset \in ClosingOffsets, dialers \in {DialerConfigs, <<>>} :
          InitOf([advanceTime(SetupNewGame(MaxAgents, MaxLeads, 0), offset) EXCEPT
                     !.dialerManager.dialers = dialers])
    /\ configs = DefaultConfigs

\* ticks and minutes while the game is paused, closed or without a dialer
NextClosing ==
    \/ Start
    \/ Pause
    \/ Tick
    \/ ProcessMinute
    \/ TrainAgent

SpecClosing == InitClosing /\ [][NextClosing]_vars

\* an engine run: ticks, minutes, whole days and day ends, with training as
\* the only other movement of cash
NextCounters ==
    \/ Start
    \/ Tick
    \/ ProcessMinute
    \/ SimulateDay
    \/ EndDay
    \/ TrainAgent

\* the game of setupNewGame with a pool of hot leads only
HotPool ==
    [BeforeStartingLeads EXCEPT
        !.leadPool = generateLeads(BeforeStartingLeads.leadPool, "hot", PoolLeads,
                                   NewRNG(SetupSeed), 0)[1]]

\* a new game at 9:00 with the small pool, the large one or the hot one, under
\* the manual dialer or the predictive one, which abandons calls
InitCounters ==
    /\ \E dialerId \in {"manual", "predictive"} :
          \/ \E nLeads \in {MaxLeads, PoolLeads} :
                InitOf(WithDialer(SetupNewGame(MaxAgents, nLeads, 0), dialerId))
          \/ InitOf(WithDialer(HotPool, dialerId))
    /\ configs = DefaultConfigs

SpecCounters == InitCounters /\ [][NextCounters]_vars

\* the dial durations of the run: none at all, or the default
RunDialDurations == {0, DialDurationSeconds}

\* a new game at 9:00 under a configuration with one of these dial durations
InitRun ==
    /\ InitOf(SetupNewGame(MaxAgents, MaxLeads, 0))
    /\ \E d \in RunDialDurations : configs = [call |-> [dialDurationSeconds |-> d]]

\* a started game whose minutes keep being processed, with breaks and training
NextRun ==
    \/ Start
    \/ KeepProcessingMinutes
    \/ StartBreak
    \/ TrainAgent

\* a step of KeepProcessingMinutes, told by its guard and by what it records
MinuteProcessed ==
    /\ ~state.isPaused
    /\ calls < MaxMinutes
    /\ calls' = calls + 1
    /\ lastOp' = "processMinute"

\* processMinute() keeps being called for as long as the run lasts
SpecRun == InitRun /\ [][NextRun]_vars /\ WF_<<calls, lastOp>>(MinuteProcessed)

\* fatigue and morale moved by the engine, by the end of a day and by a caller
NextLevels ==
    \/ Start
    \/ ProcessMinute
    \/ EndDay
    \/ AdjustFatigue
    \/ AdjustMorale

SpecLevels == InitBooks /\ [][NextLevels]_vars

\* upgrades bought one after the other, from a new game
NextUpgrades ==
    \/ PurchaseUpgrade

SpecUpgrades == Init /\ [][NextUpgrades]_vars

(***************************************************************************)
(* The engine test 'SimulationEngine processes ticks': its set-up and its  *)
(* ten processMinute() calls.                                              *)
(***************************************************************************)
TestLeads == 100
TestMinutes == 10
TestSeed == 12345
\* the engine's seed: the test's, and others
TestSeeds == {7, 42, TestSeed}
\* Math.random() during the set-up: the stream of a generator with one of these seeds
MathRandomSeeds == {1, 2, 3, 4}

\* new GameState(); the 'manual' dialer added, unlocked and made active; the
\* 'standard' source added and unlocked; generateLeads('standard', 100, Math.random);
\* addAgent({talktrack: 0.5}, 0.1, Math.random)
TestSetup(mathSeed, t) ==
    LET g0 == NewRNG(mathSeed)
        s1 == [NewGameState EXCEPT
                  !.dialerManager.dialers = <<ManualDialer>>,
                  !.dialerManager.activeDialerId = "manual",
                  !.leadPool.sources = <<[StandardSource EXCEPT !.id = "standard",
                                                                  !.unlocked = TRUE]>>]
        p1 == generateLeads(s1.leadPool, "standard", TestLeads, g0, t)
    IN  addAgent([s1 EXCEPT !.leadPool = p1[1]], DefaultBaseStats, Frac(1, 10), p1[2], t)

InitTest ==
    \E seed \in TestSeeds, mathSeed \in MathRandomSeeds :
        /\ state = TestSetup(mathSeed, 0)
        /\ rng = NewRNG(seed)
        /\ callbacks = [e \in CallbackEvents |-> FALSE]
        /\ obs = NoObservations
        /\ ret = <<>>
        /\ isRunning = FALSE
        /\ tickInterval = FALSE
        /\ timers = 0
        /\ storage = <<>>
        /\ now = 0
        /\ pre = state
        /\ lastOp = "new"
        /\ calls = 0
        /\ configs = DefaultConfigs

\* one iteration of the test's loop: engine.processMinute()
TestProcessMinute ==
    /\ Called("processMinute", TestMinutes)
    /\ SetEng([processMinute(Eng, now) EXCEPT !.ret = <<>>])
    /\ UNCHANGED <<isRunning, tickInterval, timers, storage, now>>

SpecTest == InitTest /\ [][TestProcessMinute]_vars

\* C1 (as claimed): after the set-up of the engine test (a new GameState, one
\* agent, the unlocked active dialer with 6 dials per minute per agent, 100 fresh
\* leads of an unlocked source) and ten processMinute() calls, dailyStats.dials > 0.
C1_TenMinutesRecordDials ==
    calls = TestMinutes => state.dailyStats.dials > 0

\* the state the test asserts on: ten minutes processed on the test's set-up
C1_AfterTenMinutes ==
    /\ calls = TestMinutes
    /\ rng.seed = TestSeed
    /\ Len(state.leadPool.leads) = TestLeads
    /\ Len(state.agents) = 1
    /\ state.gameTime.totalMinutes = TestMinutes

(***************************************************************************)
(* Determinism of the engine with respect to the wall clock.               *)
(***************************************************************************)
\* a game state without its wall-clock stamps (createdAt, lastDialedAt,
\* convertedAt, hiredAt), which record when something happened and decide nothing
Unstamped(st) ==
    [st EXCEPT
        !.agents = Array([i \in 1..Len(st.agents) |-> [st.agents[i] EXCEPT !.hiredAt = Null]]),
        !.leadPool.leads = Array([i \in 1..Len(st.leadPool.leads) |->
                                    [st.leadPool.leads[i] EXCEPT !.createdAt = Null,
                                                                 !.lastDialedAt = Null,
                                                                 !.convertedAt = Null]])]

\* what a call leaves behind that later decisions depend on
Outcome(W) == <<Unstamped(W.state), W.rng>>

\* C2 (as claimed): from equal game states and equal generators, a tick() or a
\* processMinute() made at one wall-clock time and the same call made at another
\* reach equal game states (stamps aside) and equal generators.
C2_WallClockDecidesNothing ==
    \A t1, t2 \in WallClocks :
        /\ Outcome(tick(Eng, t1)) = Outcome(tick(Eng, t2))
        /\ Outcome(processMinute(Eng, t1)) = Outcome(processMinute(Eng, t2))

(***************************************************************************)
(* fastForward against processMinute.                                      *)
(***************************************************************************)
RECURSIVE ProcessMinutes(_, _, _)
\* n consecutive processMinute() calls
ProcessMinutes(W, n, t) ==
    IF n = 0 THEN W ELSE Then(processMinute(W, t), LAMBDA X : ProcessMinutes(X, n - 1, t))

\* C3 (as claimed): for every n, fastForward(n) leaves the game state equal to the
\* state n consecutive processMinute() calls reach from the same state and generator.
C3_FastForwardIsMinutes ==
    \A n \in 0..MaxFF :
        fastForward(Eng, n, now).state = ProcessMinutes(Eng, n, now).state

(***************************************************************************)
(* Whole days, pausing and the end of the day.                             *)
(***************************************************************************)
\* a day can be worked from this state: the clock is inside the working hours, the
\* game is running, an agent is idle, a lead is dialable and the active dialer exists
Workable(st) ==
    /\ InSimulatedHours(st)
    /\ ~st.isPaused
    /\ AvailablePositions(st) # <<>>
    /\ getDialableLeads(st.leadPool) # <<>>
    /\ getActiveDialer(st.dialerManager).id # "none"

\* C4 (as claimed): simulateDay(), called on the engine or through
\* Game.simulateDay(), from a running game with an idle agent, an active dialer and
\* dialable leads returns a snapshot with dials > 0.
C4_SimulatedDayDials ==
    (lastOp \in {"simulateDay", "Game.simulateDay"} /\ Workable(pre)) =>
        (Len(ret) = 1 /\ ret[1].dials > 0)

\* C5 (as claimed): while state.isPaused, processMinute() leaves the game state
\* (clock, counters, agents, leads) as it was.
C5_PausedMinuteChangesNothing ==
    state.isPaused => processMinute(Eng, now).state = state

\* C6 (as claimed): a processMinute() that starts before 17:00 never leaves the
\* clock at 17:00 or later (endDay() has run by then).
C6_ClockStaysBeforeClosing ==
    (lastOp = "processMinute" /\ pre.gameTime.hour < WorkEndHour) =>
        state.gameTime.hour < WorkEndHour

\* C6 (amended): under repeated processMinute() calls the day ends at midnight:
\* the advanceTime call that moves the clock to 24:00 invokes endDay() (next day,
\* 9:00, daily counters reset, one more day played), so the clock never shows an
\* hour of 24 or later; reaching 17:00 ends nothing.
C6_DayEndsAtMidnight ==
    /\ state.gameTime.hour < DayEndHour
    /\ state.gameTime.minute < 60
    /\ LET after == advanceTime(state, 1)
       IN  IF state.gameTime.hour = DayEndHour - 1 /\ state.gameTime.minute = 59
           THEN /\ after.gameTime.day = state.gameTime.day + 1
                /\ after.gameTime.hour = WorkStartHour
                /\ after.gameTime.minute = 0
                /\ after.dailyStats = EmptyDailyStats
                /\ after.lifetimeStats.daysPlayed = state.lifetimeStats.daysPlayed + 1
           ELSE /\ after.gameTime.day = state.gameTime.day
                /\ after.dailyStats = state.dailyStats
                /\ after.lifetimeStats = state.lifetimeStats

\* a processMinute() has carried the clock from 23:59 over midnight
C6_MidnightPassed ==
    /\ lastOp = "processMinute"
    /\ pre.gameTime.hour = DayEndHour - 1
    /\ pre.gameTime.minute = 59
    /\ state.gameTime.day = pre.gameTime.day + 1
    /\ state.gameTime.hour = WorkStartHour
    /\ obs.endDays = 1

\* C7 (as claimed): a call during which days end, made with a callback registered
\* for 'onDayEnd', invokes that callback once for each of those days.
C7_DayEndCallbackInvoked ==
    [][(callbacks["onDayEnd"] /\ obs'.endDays > obs.endDays) =>
          obs'.fired["onDayEnd"] - obs.fired["onDayEnd"] = obs'.endDays - obs.endDays]_vars

(***************************************************************************)
(* Leads: dial attempts and status changes.                                *)
(***************************************************************************)
Leads == {state.leadPool.leads[i] : i \in 1..Len(state.leadPool.leads)}

ForwardChanges ==
    {<<"fresh", "contacted">>, <<"fresh", "exhausted">>,
     <<"contacted", "converted">>, <<"contacted", "dnc">>,
     <<"exhausted", "converted">>, <<"exhausted", "dnc">>}

MathRandoms == {0, Scale \div 2, Scale - 1}

\* the callback of setInterval in Game.start: engine.processMinute(); autoSave()
TimerFire ==
    /\ timers > 0
    /\ Called("timer", MaxCalls)
    /\ SetEng([processMinute(Eng, now) EXCEPT !.ret = <<>>])
    /\ storage' = <<toJSON(state', now)>>
    /\ UNCHANGED <<isRunning, tickInterval, timers, now>>

\* SaveManager.save
Save ==
    /\ Called("save", MaxCalls)
    /\ storage' = <<toJSON(state, now)>>
    /\ ret' = <<>>
    /\ UNCHANGED <<state, rng, callbacks, obs, isRunning, tickInterval, timers, now>>

\* a stored text JSON.parse rejects (or the empty text load() refuses)
DamagedSave == [unparsable |-> TRUE]

\* SaveManager.load gets past JSON.parse with this stored text
Parses(text) == "unparsable" \notin DOMAIN text

\* localStorage is shared with the browser and the user: the stored text is
\* replaced by one that is no JSON
StorageDamaged ==
    /\ storage # <<>>
    /\ Parses(storage[1])
    /\ Called("storage", MaxCalls)
    /\ storage' = <<DamagedSave>>
    /\ UNCHANGED <<state, rng, callbacks, obs, ret, isRunning, tickInterval, timers, now>>

\* Game.init with a save in storage that SaveManager.load fails to load: load
\* returns false before loadFromJSON is reached, init ignores the result and
\* goes on with the new GameState()
InitLoadFails ==
    \E seed \in Seeds :
        /\ storage # <<>>
        /\ ~Parses(storage[1])
        /\ Called("init", MaxCalls)
        /\ SetEng(NewEngine(recalculateEffects(NewGameState), seed))
        /\ isRunning' = FALSE
        /\ tickInterval' = FALSE
        /\ timers' = 0
        /\ UNCHANGED <<storage, now>>

\* the page is loaded again with a save in storage: Game.init builds a new
\* GameState, loads the save into it and builds a new engine seeded by Date.now()
Load ==
    \E c \in MathRandoms, seed \in Seeds :
        /\ storage # <<>>
        /\ Parses(storage[1])
        /\ Called("load", MaxCalls)
        /\ SetEng(NewEngine(recalculateEffects(loadFromJSON(NewGameState, storage[1], c)), seed))
        /\ isRunning' = FALSE
        /\ tickInterval' = FALSE
        /\ timers' = 0
        /\ UNCHANGED <<storage, now>>

NextSave ==
    \/ Start
    \/ Pause
    \/ TrainAgent
    \/ TimerFire
    \/ FastForward
    \/ Save
    \/ Load
    \/ StorageDamaged
    \/ InitLoadFails
    \/ WallClockPasses

SpecSave == Init /\ [][NextSave]_vars

\* the fields of a lead the claim lists
LeadFields(l) ==
    <<l.id, l.sourceId, l.baseAnswerProbability, l.baseConversionProbability,
      l.intentMultiplier, l.complianceRisk, l.freshnessDecayPerDay, l.createdAt,
      l.dialAttempts, l.maxDialAttempts, l.preferredHours, l.status>>

\* C10 (as claimed): after toJSON() and loadFromJSON() into a new GameState every
\* saved lead is present with exactly the saved value of every field.
C10_LeadsRestored ==
    lastOp = "load" =>
        /\ Len(state.leadPool.leads) = Len(storage[1].leadPool.leads)
        /\ \A i \in 1..Len(storage[1].leadPool.leads) :
              LeadFields(state.leadPool.leads[i]) = LeadFields(storage[1].leadPool.leads[i])


\* the save in storage was made of the state the load replaced
SavedFromPre ==
    storage # <<>> /\ Parses(storage[1]) /\ storage[1] = toJSON(pre, storage[1].savedAt)

\* C11 (as claimed): after toJSON() and loadFromJSON() every agent is restored
\* exactly, current call included, so that the end of a call saved mid-call adds
\* the same talk time, and the end of a training saved mid-training awards the
\* same XP, as in the state that was saved.
C11_AgentsRestored ==
    (lastOp = "load" /\ SavedFromPre) =>
        /\ Len(state.agents) = Len(pre.agents)
        /\ \A i \in 1..Len(pre.agents) :
              /\ state.agents[i] = pre.agents[i]
              /\ transitionAgentState(state, state.agents[i]).dailyStats.talkTimeSeconds
                    = transitionAgentState(pre, pre.agents[i]).dailyStats.talkTimeSeconds
              /\ transitionAgentState(state, state.agents[i]).trainingXP
                    = transitionAgentState(pre, pre.agents[i]).trainingXP

\* C12 (as claimed): when a save exists but SaveManager.load fails, Game.init
\* leaves a freshly set-up game: the starting agent, the configured dialers and
\* lead sources and the starting leads, as when no save exists.
C12_FailedLoadFallsBack ==
    lastOp = "init" =>
        /\ Len(state.agents) >= 1
        /\ Len(state.dialerManager.dialers) = Len(DialerConfigs)
        /\ Len(state.leadPool.sources) = Len(SourceConfigs)
        /\ Len(state.leadPool.leads) >= 1
        /\ state.cash = StartingCash

(***************************************************************************)
(* The shop: dialers and upgrades bought with cash.                        *)
(***************************************************************************)
\* the unlocked flags of the dialers of a state, by position
UnlockedFlags(st) == [i \in 1..Len(st.dialerManager.dialers) |-> st.dialerManager.dialers[i].unlocked]

\* the cost statistics of a state
CostStats(st) == <<st.dailyStats.costs, st.lifetimeStats.totalCosts>>

\* C13 (as claimed): Game.unlockDialer either unlocks the dialer, deducts exactly
\* its unlockCost and returns true, or returns false and leaves cash, the cost
\* statistics and every dialer's unlocked flag unchanged.
C13_UnlockAllOrNothing ==
    lastOp = "unlockDialer" =>
        \/ /\ ret = <<TRUE>>
           /\ \E i \in 1..Len(state.dialerManager.dialers) :
                 /\ ~pre.dialerManager.dialers[i].unlocked
                 /\ UnlockedFlags(state) = [UnlockedFlags(pre) EXCEPT ![i] = TRUE]
                 /\ state.cash = pre.cash - state.dialerManager.dialers[i].unlockCost
        \/ /\ ret = <<FALSE>>
           /\ state.cash = pre.cash
           /\ CostStats(state) = CostStats(pre)
           /\ UnlockedFlags(state) = UnlockedFlags(pre)

\* the last call was purchase(id) and it returned true
Purchased == lastOp = "purchase" /\ ret[1]

\* the levels of the catalog's upgrades in a state, by position
Levels(st) == [i \in 1..Len(UpgradeConfigs) |-> getUpgradeLevel(st, UpgradeConfigs[i].id)]

\* C14: purchase(id) returns true exactly when canPurchase(id) held before it;
\* then cash is lower by the cost at the level before the purchase and the level
\* of id is higher by one (no other level changes); when it returns false the
\* state is as it was.
C14_PurchaseAtomic ==
    lastOp = "purchase" =>
        /\ ret[1] = canPurchase(pre, ret[2])
        /\ ret[1] =>
              /\ state.cash = pre.cash - getUpgradeCost(pre, ret[2])
              /\ getUpgradeCost(pre, ret[2]) =
                    calculateUpgradeCost(UpgradeConfigs[UpgradeIndex(ret[2])].baseCost,
                                         getUpgradeLevel(pre, ret[2]),
                                         UpgradeConfigs[UpgradeIndex(ret[2])].costGrowthRate)
              /\ Levels(state) = [Levels(pre) EXCEPT ![UpgradeIndex(ret[2])] = @ + 1]
        /\ ~ret[1] => state = pre

\* an upgrade was bought at level 1 for the grown cost (150 for 'crm' where level
\* 0 cost 100)
C14_SecondLevelBought ==
    /\ Purchased
    /\ ret[2] = "crm"
    /\ getUpgradeLevel(state, "crm") = 2
    /\ state.cash = pre.cash - 150

\* C15: after any sequence of purchase() calls from a state with no upgrades, no
\* level exceeds its maxLevel and every upgrade at level >= 1 has each of its
\* prerequisites at level >= 1.
C15_LevelsWithinCatalog ==
    \A i \in 1..Len(UpgradeConfigs) :
        /\ getUpgradeLevel(state, UpgradeConfigs[i].id) <= UpgradeConfigs[i].maxLevel
        /\ getUpgradeLevel(state, UpgradeConfigs[i].id) >= 1 =>
              \A prereq \in UpgradeConfigs[i].prerequisites : getUpgradeLevel(state, prereq) >= 1
        /\ DOMAIN state.upgrades \subseteq {UpgradeConfigs[j].id : j \in 1..Len(UpgradeConfigs)}

\* an upgrade is at its maxLevel and was refused once more, and an upgrade
\* behind a prerequisite is owned
C15_MaxedAndChained ==
    /\ lastOp = "purchase"
    /\ ~ret[1]
    /\ ret[2] = "recruiter"
    /\ getUpgradeLevel(state, "recruiter") = 1
    /\ getUpgradeLevel(state, "scripts") >= 1

RECURSIVE ValueOfType(_, _)
\* the sum of effect.value over the effects of one type
ValueOfType(effects, type) ==
    IF effects = <<>> THEN 0
    ELSE ValueOfType(Tail(effects), type)
            + (IF Head(effects).type = type THEN Head(effects).value ELSE 0)

RECURSIVE OwnedSum(_, _, _)
\* the sum over the first k catalog entries of effect.value * level
OwnedSum(st, k, type) ==
    IF k = 0 THEN 0
    ELSE OwnedSum(st, k - 1, type)
            + ValueOfType(UpgradeConfigs[k].effects, type) * getUpgradeLevel(st, UpgradeConfigs[k].id)

\* C16: after every successful purchase each magnitude of upgradeEffects is the
\* sum of effect.value * level over the owned upgrades' effects of its type, and
\* recalculateEffects is idempotent.
C16_EffectsAreLevelSums ==
    Purchased =>
        /\ \A f \in DOMAIN EffectTypeOf :
              state.upgradeEffects[f] = OwnedSum(state, Len(UpgradeConfigs), EffectTypeOf[f])
        /\ recalculateEffects(state) = state
        /\ recalculateEffects(recalculateEffects(state)) = recalculateEffects(state)

\* two upgrades feed one effect, one of them at level 2
C16_TwoUpgradesOneEffect ==
    /\ Purchased
    /\ getUpgradeLevel(state, "crm") = 2
    /\ getUpgradeLevel(state, "scripts") = 1
    /\ state.upgradeEffects.answerRateBonus = 2 * Frac(5, 100) + Frac(2, 100)
    /\ state.upgradeEffects.trainingEfficiency = 2 * Frac(1, 10)

\* the number of leads the 'add_leads' effects of an upgrade name
LeadsNamed(upgradeId) == ValueOfType(UpgradeConfigs[UpgradeIndex(upgradeId)].effects, "add_leads")

\* C17 (as claimed): a successful purchase of an upgrade with an 'add_leads'
\* effect of value M adds exactly M new fresh leads to the pool, whichever lead
\* source the effect names (the default one when it names none).
C17_PurchaseAddsLeads ==
    Purchased =>
        /\ Len(state.leadPool.leads) = Len(pre.leadPool.leads) + LeadsNamed(ret[2])
        /\ \A i \in 1..Len(state.leadPool.leads) :
              i > Len(pre.leadPool.leads) => state.leadPool.leads[i].status = "fresh"

(***************************************************************************)
(* Timers, reputation and the clock.                                       *)
(***************************************************************************)
\* C18 (as claimed): after tick() returns every agent's stateTimeRemaining is
\* >= 0, whatever dial, call, wrap-up, break and training durations are
\* configured.
C18_TimeRemainingNonNegative ==
    \A i \in 1..Len(state.agents) : state.agents[i].stateTimeRemaining >= 0

\* C19: after any sequence of ticks, with their complaint and abandonment
\* penalties, and of adjustReputation calls with any delta, reputation is
\* within 0..100.
C19_ReputationInRange == state.reputation >= 0 /\ state.reputation <= 100 * RepScale

\* ticks have taken an abandonment's penalty of 0.5 and a complaint's penalty
\* of 2 from the reputation, and a delta that leads far below the range has
\* then left it at 0
C19_ClampedAfterPenalties ==
    /\ lastOp = "adjustReputation"
    /\ state.dailyStats.complaints > 0
    /\ state.dailyStats.abandonments > 0
    /\ pre.reputation < StartingReputation * RepScale
    /\ pre.reputation > 0
    /\ state.reputation = 0

\* C20: through advanceTime, processMinute, simulateDay and fastForward the
\* minute stays in [0, 60) and the hour below 24, totalMinutes grows in every
\* call by exactly the minutes advanced, and the day changes only in endDay(),
\* by one per call.
C20_ClockWellFormed ==
    /\ [](/\ state.gameTime.minute \in 0..59
          /\ state.gameTime.hour \in 0..23
          /\ state.gameTime.day = 1 + obs.endDays)
    /\ [][/\ state'.gameTime.totalMinutes - state.gameTime.totalMinutes
                = obs'.minutesAdvanced - obs.minutesAdvanced
          /\ state'.gameTime.day - state.gameTime.day = obs'.endDays - obs.endDays]_vars

\* a simulated day has ended the first day and an advance of more than a day
\* the second; the minutes of both are on the clock
C20_TwoDaysEnded ==
    /\ lastOp = "advanceTime"
    /\ obs.endDays = 2
    /\ state.gameTime.day = 3
    /\ state.gameTime.totalMinutes - pre.gameTime.totalMinutes = 1500
    /\ pre.gameTime.totalMinutes > 0

(***************************************************************************)
(* The end of a day and the books.                                         *)
(***************************************************************************)
\* every counter of a record of counters is zero
AllZero(stats) == \A f \in DOMAIN stats : stats[f] = 0

\* C21: endDay() returns the daily statistics as they were just before the
\* call, with profit = revenue - costs; after it every daily counter of the
\* game state and of every agent is zero, every agent's fatigue is
\* max(0, old fatigue - 0.3), the day is one higher and the clock reads 9:00;
\* the lifetime statistics other than daysPlayed and daysWorked are unchanged.
C21_EndDaySnapshotsAndResets ==
    lastOp = "endDay" =>
        /\ ret = <<[pre.dailyStats EXCEPT !.profit = pre.dailyStats.revenue - pre.dailyStats.costs]>>
        /\ AllZero(state.dailyStats)
        /\ Len(state.agents) = Len(pre.agents)
        /\ \A i \in 1..Len(pre.agents) :
              /\ AllZero(state.agents[i].dailyStats)
              /\ state.agents[i].fatigue =
                    (IF pre.agents[i].fatigue > Frac(3, 10)
                     THEN pre.agents[i].fatigue - Frac(3, 10) ELSE 0)
              /\ state.agents[i].lifetimeStats =
                    [pre.agents[i].lifetimeStats EXCEPT !.daysWorked = @ + 1]
        /\ state.gameTime.day = pre.gameTime.day + 1
        /\ state.gameTime.hour = 9
        /\ state.gameTime.minute = 0
        /\ state.lifetimeStats = [pre.lifetimeStats EXCEPT !.daysPlayed = @ + 1]

\* a day with dials, a contact and a tired agent was ended
C21_BusyDayEnded ==
    /\ lastOp = "endDay"
    /\ pre.dailyStats.dials > 0
    /\ pre.dailyStats.contacts > 0
    /\ ret[1].profit = pre.dailyStats.revenue - pre.dailyStats.costs
    /\ \E i \in 1..Len(pre.agents) : pre.agents[i].fatigue > 0 /\ pre.agents[i].dailyStats.dials > 0

\* cash less what was ever earned plus what was ever spent
Balance(st) == st.cash - st.lifetimeStats.totalRevenue + st.lifetimeStats.totalCosts

\* C22: adjustCash(d) adds d to cash, and |d| to the daily and lifetime revenue
\* when d > 0 and to the daily and lifetime costs otherwise; across ticks,
\* upgrade purchases, dialer unlocks and training sessions
\* cash - totalRevenue + totalCosts stays what it was in the new game.
C22_BooksBalance ==
    /\ Balance(state) = StartingCash
    /\ lastOp = "adjustCash" =>
          /\ state.cash = pre.cash + ret[1]
          /\ state.dailyStats.revenue = pre.dailyStats.revenue + (IF ret[1] > 0 THEN ret[1] ELSE 0)
          /\ state.lifetimeStats.totalRevenue
                = pre.lifetimeStats.totalRevenue + (IF ret[1] > 0 THEN ret[1] ELSE 0)
          /\ state.dailyStats.costs = pre.dailyStats.costs + (IF ret[1] > 0 THEN 0 ELSE 0 - ret[1])
          /\ state.lifetimeStats.totalCosts
                = pre.lifetimeStats.totalCosts + (IF ret[1] > 0 THEN 0 ELSE 0 - ret[1])

\* a conversion has earned money in a tick and a cost was booked after it
C22_EarnedAndSpent ==
    /\ lastOp \in {"adjustCash", "trainAgent", "purchase", "unlockDialer"}
    /\ pre.lifetimeStats.totalRevenue > 0
    /\ pre.lifetimeStats.totalConversions > 0
    /\ state.lifetimeStats.totalCosts > pre.lifetimeStats.totalCosts

\* the dialer of a manager with an id, <<>> when there is none
DialerOf(dm, dialerId) ==
    IF DialerIndex(dm, dialerId) = 0 THEN <<>> ELSE dm.dialers[DialerIndex(dm, dialerId)]

\* C23: setActiveDialer(id) returns false and leaves activeDialerId unchanged
\* when the target is unknown or locked, and returns true and sets it otherwise;
\* after any sequence of setActiveDialer and unlockDialer calls the active
\* dialer is an unlocked one.
C23_ActiveDialerUnlocked ==
    /\ DialerOf(state.dialerManager, state.dialerManager.activeDialerId) # <<>>
    /\ DialerOf(state.dialerManager, state.dialerManager.activeDialerId).unlocked
    /\ lastOp = "setDialer" =>
          IF \/ DialerOf(pre.dialerManager, ret[2]) = <<>>
             \/ ~DialerOf(pre.dialerManager, ret[2]).unlocked
          THEN /\ ret[1] = FALSE
               /\ state.dialerManager.activeDialerId = pre.dialerManager.activeDialerId
          ELSE /\ ret[1] = TRUE
               /\ state.dialerManager.activeDialerId = ret[2]

\* a dialer unlocked before was made the active one
C23_SwitchedToUnlocked ==
    /\ lastOp = "setDialer"
    /\ ret = <<TRUE, "predictive">>
    /\ pre.dialerManager.activeDialerId = "manual"
    /\ state.dialerManager.activeDialerId = "predictive"

\* C24: unlockDialer(id) returns true and sets the dialer's flag only if the
\* dialer exists, was locked and every prerequisite is unlocked; otherwise it
\* returns false and changes no flag; every unlocked dialer has all its
\* prerequisites unlocked.
C24_UnlockNeedsPrerequisites ==
    /\ \A i \in 1..Len(state.dialerManager.dialers) :
          state.dialerManager.dialers[i].unlocked =>
              state.dialerManager.dialers[i].prerequisites \subseteq UnlockedSet(state.dialerManager)
    /\ lastOp = "managerUnlock" =>
          IF /\ DialerOf(pre.dialerManager, ret[2]) # <<>>
             /\ ~DialerOf(pre.dialerManager, ret[2]).unlocked
             /\ DialerOf(pre.dialerManager, ret[2]).prerequisites \subseteq UnlockedSet(pre.dialerManager)
          THEN /\ ret[1] = TRUE
               /\ UnlockedFlags(state)
                    = [UnlockedFlags(pre) EXCEPT ![DialerIndex(pre.dialerManager, ret[2])] = TRUE]
          ELSE /\ ret[1] = FALSE
               /\ UnlockedFlags(state) = UnlockedFlags(pre)

\* the last dialer of the chain was unlocked after the one it requires
C24_ChainUnlocked ==
    /\ lastOp = "managerUnlock"
    /\ ret = <<TRUE, "ai_assisted">>
    /\ UnlockedSet(state.dialerManager) = {"manual", "predictive", "ai_assisted"}

\* the candidates of getNextLead in a pool: the fresh leads, else the redialable
Candidates(pool) ==
    IF Len(getDialableLeads(pool)) > 0 THEN getDialableLeads(pool) ELSE getRedialableLeads(pool)

\* answerProbability(hour) x conversionProbability() of a lead
ExpectedValue(l, hourOfDay) ==
    getAnswerProbability(l, hourOfDay, now) * getConversionProbability(l, now)

\* C25: getNextLead(hour, rng) returns null exactly when the pool has neither a
\* dialable nor a redialable lead; otherwise the lead is a candidate (a fresh
\* one if any is dialable, a redialable one only if none is), fewer than
\* max(1, floor(0.2 n)) candidates have a larger answerProbability(hour) x
\* conversionProbability(), and it is not converted, exhausted or dnc.
C25_NextLeadAmongBest ==
    lastOp = "getNextLead" =>
        LET cands == Candidates(pre.leadPool)
            topCount == Max[1, Len(cands) \div 5]
        IN  /\ ret[1] = 0 <=>
                  Len(getDialableLeads(pre.leadPool)) = 0 /\ Len(getRedialableLeads(pre.leadPool)) = 0
            /\ ret[1] # 0 =>
                  \E i \in 1..Len(cands) :
                      /\ cands[i].id = ret[1]
                      /\ cands[i].status \notin {"converted", "exhausted", "dnc"}
                      /\ Cardinality({j \in 1..Len(cands) :
                             ExpectedValue(cands[j], ret[2]) > ExpectedValue(cands[i], ret[2])})
                           < topCount

\* the second best of at least ten fresh leads was returned
C25_SecondOfTopTwo ==
    /\ lastOp = "getNextLead"
    /\ Len(getDialableLeads(pre.leadPool)) >= 10
    /\ \E i \in 1..Len(pre.leadPool.leads) :
          /\ pre.leadPool.leads[i].id = ret[1]
          /\ \E j \in 1..Len(pre.leadPool.leads) :
                ExpectedValue(pre.leadPool.leads[j], ret[2]) > ExpectedValue(pre.leadPool.leads[i], ret[2])

\* no fresh lead was left and a contacted one was returned
C25_RedialReturned ==
    /\ lastOp = "getNextLead"
    /\ ret[1] # 0
    /\ Len(getDialableLeads(pre.leadPool)) = 0

\* nothing was left to dial
C25_NullReturned ==
    /\ lastOp = "getNextLead"
    /\ ret[1] = 0

\* the ids of the leads of a pool
LeadIds(pool) == {pool.leads[i].id : i \in 1..Len(pool.leads)}

\* C26: generateLeads(sourceId, n, rng) on an unlocked source adds exactly n
\* leads to the pool, each with an id no lead of the pool had, status 'fresh'
\* and isDialable(); on an unknown or locked source it returns an empty list
\* and leaves the pool and nextLeadId unchanged.
C26_GeneratedLeadsAreNew ==
    lastOp = "generateLeads" =>
        IF SourceOf(pre.leadPool, ret[2]).unlocked
        THEN /\ Len(ret[1]) = ret[3]
             /\ Len(state.leadPool.leads) = Len(pre.leadPool.leads) + ret[3]
             /\ Cardinality(LeadIds(state.leadPool)) = Len(state.leadPool.leads)
             /\ \A k \in 1..Len(ret[1]) :
                   /\ ret[1][k] \notin LeadIds(pre.leadPool)
                   /\ \E i \in 1..Len(state.leadPool.leads) :
                         /\ state.leadPool.leads[i].id = ret[1][k]
                         /\ state.leadPool.leads[i].status = "fresh"
                         /\ isDialable(state.leadPool.leads[i])
             /\ \A i \in 1..Len(pre.leadPool.leads) :
                   state.leadPool.leads[i] = pre.leadPool.leads[i]
        ELSE /\ ret[1] = <<>>
             /\ state.leadPool = pre.leadPool

\* three leads were added to a pool whose leads had been dialed
C26_ThreeAddedToDialedPool ==
    /\ lastOp = "generateLeads"
    /\ ret[3] = 3
    /\ Len(ret[1]) = 3
    /\ \E i \in 1..Len(pre.leadPool.leads) : pre.leadPool.leads[i].status # "fresh"

\* the state changes of agents the engine is meant to perform
EngineTransitions ==
    {<<"idle", "dialing">>, <<"dialing", "on_call">>, <<"dialing", "idle">>,
     <<"on_call", "wrap_up">>, <<"wrap_up", "idle">>, <<"break", "idle">>,
     <<"training", "idle">>}

\* C27: the engine changes an agent's state only idle->dialing,
\* dialing->on_call, dialing->idle, on_call->wrap_up, wrap_up->idle,
\* break->idle and training->idle; isAvailable() is true exactly in state
\* idle, and a dial is only assigned to an agent that is idle.
C27_AgentTransitions ==
    /\ obs.agentChanges \subseteq EngineTransitions
    /\ \A i \in 1..Len(state.agents) :
          isAvailable(state.agents[i]) <=> state.agents[i].state = "idle"

\* the engine has taken agents through a whole call, an unanswered dial and
\* the end of a training session
C27_CallCycleAndTrainingSeen ==
    EngineTransitions \ {<<"break", "idle">>} \subseteq obs.agentChanges

\* the engine has ended a break
C27_BreakEnded == <<"break", "idle">> \in obs.agentChanges

C29_CostStrictlyIncreasing ==
    lastOp = "calculateUpgradeCost" => ret[5] > ret[4]

\* C29 (amended): the cost never decreases with the level, and it strictly
\* increases whenever baseCost x (growthRate - 1) > 1; for smaller base costs
\* the rounding makes successive levels cost the same.
C29_CostNeverDecreases ==
    lastOp = "calculateUpgradeCost" =>
        /\ ret[5] >= ret[4]
        /\ ret[1] * (ret[2] - Scale) > Scale => ret[5] > ret[4]

\* the test's upgrade: 100, 150, 225
C29_TestCostsGrow ==
    /\ lastOp = "calculateUpgradeCost"
    /\ ret = <<100, Frac(3, 2), 2, 150, 225>>

\* a base cost of 1 growing by a tenth costs 1 at level 0 and at level 1
C29_SameCostTwice ==
    /\ lastOp = "calculateUpgradeCost"
    /\ ret = <<1, Frac(11, 10), 1, 1, 1>>

\* C30: for every combination of inputs, extreme multipliers and bonuses
\* included, calculateAnswerProbability is in [0, 0.95] and
\* calculateConversionProbability in [0, 0.80]; every probability the engine
\* draws an answer or a conversion with is inside these bounds.
C30_ProbabilitiesCapped ==
    /\ lastOp = "calculateAnswerProbability" => ret[1] \in 0..AnswerCap
    /\ lastOp = "calculateConversionProbability" => ret[1] \in 0..ConversionCap
    /\ \A p \in obs.answerProbs : p \in 0..AnswerCap
    /\ \A p \in obs.conversionProbs : p \in 0..ConversionCap

\* the answer formula met its cap on the largest arguments
C30_ExtremeAnswerCapped ==
    /\ lastOp = "calculateAnswerProbability"
    /\ ret = <<AnswerCap, <<5 * Scale, 5 * Scale, 5 * Scale, 500 * RepScale, 5 * Scale,
                            4 * Scale, 0 - 5 * Scale>>>>

\* the conversion formula met its cap on the largest arguments
C30_ExtremeConversionCapped ==
    /\ lastOp = "calculateConversionProbability"
    /\ ret = <<ConversionCap, <<5 * Scale, 5 * Scale, 0, 5 * Scale, 4 * Scale, 4 * Scale>>>>

\* the engine has drawn an answer and a conversion
C30_EngineDrew ==
    /\ obs.answerProbs # {}
    /\ obs.conversionProbs # {}

\* C31 (as claimed): for reputations r1 < r2 in [0, 100] and all other
\* inputs equal, calculateAnswerProbability at r1 is strictly smaller than at r2.
C31_StrictlySmallerAtLowerReputation ==
    lastOp = "compareReputations" => ret[1] < ret[2]

\* C31 (amended): the value at r1 is never larger than at r2, and it is
\* strictly smaller whenever the value at r2 is above 0 and below the cap.
C31_NeverLargerAtLowerReputation ==
    lastOp = "compareReputations" =>
        /\ ret[1] <= ret[2]
        /\ (ret[2] > 0 /\ ret[2] < AnswerCap) => ret[1] < ret[2]

\* the test's comparison: base 0.2 at reputations 20 and 100
C31_TestReputationsCompared ==
    /\ lastOp = "compareReputations"
    /\ ret[3] = 20 * RepScale
    /\ ret[4] = 100 * RepScale
    /\ ret[5] = <<Frac(2, 10), Scale, Scale, Scale, 0, 0>>
    /\ ret[1] < ret[2]

\* both values at the cap
C31_BothCapped ==
    /\ lastOp = "compareReputations"
    /\ ret[1] = AnswerCap
    /\ ret[2] = AnswerCap

\* C32: after any sequence of engine ticks, day ends and adjustFatigue and
\* adjustMorale calls with arbitrary deltas, every agent's fatigue and morale
\* are within [0, 1].
C32_FatigueAndMoraleInRange ==
    \A i \in 1..Len(state.agents) :
        /\ state.agents[i].fatigue \in 0..Scale
        /\ state.agents[i].morale \in 0..Scale

\* an agent brought to full fatigue was tired further by a call of the engine
\* or by the caller, and stays at 1
C32_FullFatigueHeld ==
    /\ lastOp \in {"processMinute", "adjustFatigue"}
    /\ \E i \in 1..Len(state.agents) :
          /\ pre.agents[i].fatigue = Scale
          /\ state.agents[i].fatigue = Scale

\* the fatigue a call gave an agent was lowered by the end of the day
C32_DayEndRested ==
    /\ lastOp = "endDay"
    /\ \E i \in 1..Len(state.agents) :
          /\ pre.agents[i].fatigue > 0
          /\ state.agents[i].fatigue < pre.agents[i].fatigue

\* the agents as the dialing step of a tick from state st finds them
AgentsAtDialing(st) == processAgentStates(NewEngine(st, 0)).state.agents

\* the number of i in 1..n with P(i)
CountOf(n, P(_)) == Cardinality({i \in 1..n : P(i)})

RECURSIVE SumSeq(_)
\* the sum of the numbers of a sequence
SumSeq(q) == IF Len(q) = 0 THEN 0 ELSE Head(q) + SumSeq(Tail(q))

\* the sum of F(i) over i in 1..n
SumOf(n, F(_)) == SumSeq([i \in 1..n |-> F(i)])

\* min(ceil(dialsPerMinutePerAgent x A / 6), A, D) at the dialing step of a tick from st
DialsDue(st) ==
    LET A == CountOf(Len(st.agents), LAMBDA i : AgentsAtDialing(st)[i].state = "idle")
        D == Len(getDialableLeads(st.leadPool))
        perTick == getActiveDialer(st.dialerManager).dialsPerMinutePerAgent * A
        ceil == IF perTick % 6 = 0 THEN perTick \div 6 ELSE perTick \div 6 + 1
    IN  Min[ceil, Min[A, D]]

\* C33: in every processed tick the number of dials is
\* min(ceil(dialsPerMinutePerAgent x A / 6), A, D) for A idle agents and D
\* dialable leads at the start of the dialing step; an idle agent gets at most
\* one dial, and every dial adds 1 to the agent's daily dials, to the lead's
\* dialAttempts and to the daily and lifetime dials of the state.
C33_DialsPerTick ==
    (lastOp = "tick" /\ ~TickSkipped(pre)) =>
        /\ state.dailyStats.dials = pre.dailyStats.dials + DialsDue(pre)
        /\ state.lifetimeStats.totalDials = pre.lifetimeStats.totalDials + DialsDue(pre)
        /\ SumOf(Len(state.agents),
                 LAMBDA i : state.agents[i].dailyStats.dials - pre.agents[i].dailyStats.dials)
             = DialsDue(pre)
        /\ SumOf(Len(state.leadPool.leads),
                 LAMBDA i : state.leadPool.leads[i].dialAttempts
                            - pre.leadPool.leads[i].dialAttempts)
             = DialsDue(pre)
        /\ \A i \in 1..Len(state.agents) :
              \/ state.agents[i].dailyStats.dials = pre.agents[i].dailyStats.dials
              \/ /\ state.agents[i].dailyStats.dials = pre.agents[i].dailyStats.dials + 1
                 /\ AgentsAtDialing(pre)[i].state = "idle"

\* one idle agent under the slow dialer made the one dial of the tick
C33_OneAgentSlowDialer ==
    /\ lastOp = "tick"
    /\ ~TickSkipped(pre)
    /\ getActiveDialer(pre.dialerManager).dialsPerMinutePerAgent = 3
    /\ CountOf(Len(pre.agents), LAMBDA i : AgentsAtDialing(pre)[i].state = "idle") = 1
    /\ state.dailyStats.dials = pre.dailyStats.dials + 1

\* two idle agents and the slow dialer: one dial of the two possible
C33_RateLimitsDials ==
    /\ lastOp = "tick"
    /\ ~TickSkipped(pre)
    /\ CountOf(Len(pre.agents), LAMBDA i : AgentsAtDialing(pre)[i].state = "idle") = 2
    /\ Len(getDialableLeads(pre.leadPool)) >= 2
    /\ state.dailyStats.dials = pre.dailyStats.dials + 1

\* two idle agents and one dialable lead: one dial
C33_LeadsLimitDials ==
    /\ lastOp = "tick"
    /\ ~TickSkipped(pre)
    /\ getActiveDialer(pre.dialerManager).dialsPerMinutePerAgent = 12
    /\ CountOf(Len(pre.agents), LAMBDA i : AgentsAtDialing(pre)[i].state = "idle") = 2
    /\ Len(getDialableLeads(pre.leadPool)) = 1
    /\ state.dailyStats.dials = pre.dailyStats.dials + 1

\* C34 (as claimed): when the pool holds no fresh dialable lead but at least
\* one redialable lead and an agent is idle during work hours, the engine's
\* next processed tick dials one of the redialable leads.
C34_RedialWhenNoFreshLead ==
    ( /\ lastOp = "tick"
      /\ ~TickSkipped(pre)
      /\ Len(getDialableLeads(pre.leadPool)) = 0
      /\ Len(getRedialableLeads(pre.leadPool)) > 0
      /\ \E i \in 1..Len(pre.agents) : AgentsAtDialing(pre)[i].state = "idle" )
    => \E i \in 1..Len(pre.leadPool.leads) :
           /\ isRedialable(pre.leadPool.leads[i])
           /\ state.leadPool.leads[i].dialAttempts = pre.leadPool.leads[i].dialAttempts + 1

\* the state and the time left of every agent
AgentTimers(st) ==
    [i \in 1..Len(st.agents) |-> <<st.agents[i].state, st.agents[i].stateTimeRemaining>>]

\* C35: tick() is a no-op whenever the state is paused, the clock is outside
\* work hours or no active dialer exists: nothing of the game state changes,
\* no draw is made and onTick is not fired; an agent that is mid-call,
\* mid-wrap-up or mid-training outside work hours keeps its state and
\* remaining time over ticks and minutes.
C35_SkippedTickChangesNothing ==
    /\ [](lastOp = "tick" /\ TickSkipped(pre) => state = pre)
    /\ [][(lastOp' = "tick" /\ calls' # calls /\ TickSkipped(state))
            => (state' = state /\ rng' = rng /\ obs' = obs)]_vars
    /\ [][(lastOp' \in {"tick", "processMinute"} /\ calls' # calls /\ ~isWorkHours(state))
            => AgentTimers(state') = AgentTimers(state)]_vars

\* a tick after closing time found an agent on a call and left it so
C35_MidCallAtClosing ==
    /\ lastOp = "tick"
    /\ ~pre.isPaused
    /\ ~isWorkHours(pre)
    /\ \E i \in 1..Len(pre.agents) :
          /\ pre.agents[i].state = "on_call"
          /\ pre.agents[i].stateTimeRemaining > 0
          /\ state.agents[i] = pre.agents[i]

\* a tick in work hours of a started game found no active dialer
C35_NoDialer ==
    /\ lastOp = "tick"
    /\ ~pre.isPaused
    /\ isWorkHours(pre)
    /\ getActiveDialer(pre.dialerManager).id = "none"
    /\ state = pre

\* a tick in work hours found the game paused, an agent in training
C35_PausedInTraining ==
    /\ lastOp = "tick"
    /\ pre.isPaused
    /\ isWorkHours(pre)
    /\ \E i \in 1..Len(pre.agents) : pre.agents[i].state = "training"
    /\ state = pre

\* the sum over all agents of a counter of their dailyStats
AgentsDaily(st, counter) ==
    SumOf(Len(st.agents), LAMBDA i : st.agents[i].dailyStats[counter])

\* C36: in every reachable state of an engine run without agent removal, the
\* daily dials, contacts and conversions of the game state each equal the sum
\* of that dailyStats counter over all agents, and, with no other cash income,
\* the daily revenue equals the sum of the agents' daily revenue.
C36_DailyCountersAreAgentSums ==
    /\ state.dailyStats.dials = AgentsDaily(state, "dials")
    /\ state.dailyStats.contacts = AgentsDaily(state, "contacts")
    /\ state.dailyStats.conversions = AgentsDaily(state, "conversions")
    /\ state.dailyStats.revenue = AgentsDaily(state, "revenue")

\* both agents dialed, a call was answered and a sale was made
C36_BothAgentsCounted ==
    /\ \A i \in 1..Len(state.agents) : state.agents[i].dailyStats.dials > 0
    /\ Len(state.agents) = MaxAgents
    /\ state.dailyStats.contacts > 0
    /\ state.dailyStats.conversions > 0
    /\ state.dailyStats.revenue > 0

\* the counters of a day with dials were reset on both sides by the day's end
C36_ResetTogether ==
    /\ lastOp = "endDay"
    /\ pre.dailyStats.dials > 0
    /\ state.dailyStats.dials = 0
    /\ AgentsDaily(state, "dials") = 0

\* C37: in every reachable state of an engine run the daily statistics satisfy
\* conversions <= contacts, complaints <= contacts and
\* contacts + abandonments <= dials.
C37_DailyStatsOrdered ==
    /\ state.dailyStats.conversions <= state.dailyStats.contacts
    /\ state.dailyStats.complaints <= state.dailyStats.contacts
    /\ state.dailyStats.contacts + state.dailyStats.abandonments <= state.dailyStats.dials

\* a day with an answered dial and an abandoned one
C37_AnsweredAndAbandoned ==
    /\ state.dailyStats.contacts > 0
    /\ state.dailyStats.abandonments > 0

\* a day with a sale
C37_Sold ==
    /\ state.dailyStats.conversions > 0
    /\ state.dailyStats.conversions <= state.dailyStats.contacts

\* a day with a complaint, and a dial neither answered nor abandoned
C37_ComplaintAndUnanswered ==
    /\ state.dailyStats.complaints > 0
    /\ state.dailyStats.contacts + state.dailyStats.abandonments < state.dailyStats.dials

\* C38: in every reachable state of an engine run no two agents on a call
\* hold the same lead as their current call, no lead that was contacted,
\* converted, exhausted or dnc when the engine chose it has been dialed, and no
\* lead's dialAttempts exceeds its maxDialAttempts.
C38_NoLeadSharedOrDialedAgain ==
    /\ \A i, j \in 1..Len(state.agents) :
          (/\ i # j
           /\ state.agents[i].state = "on_call" /\ state.agents[i].currentCall.kind = "call"
           /\ state.agents[j].state = "on_call" /\ state.agents[j].currentCall.kind = "call")
          => state.agents[i].currentCall.lead # state.agents[j].currentCall.lead
    /\ obs.dialedStatuses \subseteq {"fresh"}
    /\ \A i \in 1..Len(state.leadPool.leads) :
          state.leadPool.leads[i].dialAttempts <= state.leadPool.leads[i].maxDialAttempts

\* two agents on calls with two leads while a contacted lead and an idle
\* moment of dialing lie behind
C38_TwoCallsTwoLeads ==
    /\ Len(state.agents) = MaxAgents
    /\ \A i \in 1..Len(state.agents) :
          state.agents[i].state = "on_call" /\ state.agents[i].currentCall.kind = "call"
    /\ state.agents[1].currentCall.lead # state.agents[2].currentCall.lead
    /\ "fresh" \in obs.dialedStatuses

\* a lead dialed up to its maxDialAttempts and no further, ticks having run
\* after its last dial
C38_DialedToTheLimit ==
    /\ lastOp \in {"processMinute", "simulateDay"}
    /\ \E i \in 1..Len(state.leadPool.leads) :
          /\ state.leadPool.leads[i].dialAttempts = state.leadPool.leads[i].maxDialAttempts
          /\ pre.leadPool.leads[i].dialAttempts = state.leadPool.leads[i].maxDialAttempts

\* agent i is dialing, on a call, wrapping up, on a break or in training
Busy(i) == state.agents[i].state \in {"dialing", "on_call", "wrap_up", "break", "training"}

\* the run is over and agent i is still counting its time down
StillCounting(i) == calls = MaxMinutes /\ state.agents[i].stateTimeRemaining > 0

\* C39: provided processMinute() keeps being called with the state unpaused,
\* and for every configured dial, call, wrap-up, break and training duration
\* >= 0, every agent that is dialing, on a call, wrapping up, on a break or in
\* training eventually returns to idle (or is still counting down when the
\* run of MaxMinutes minutes ends).
C39_BusyAgentsReturnToIdle ==
    \A i \in 1..MaxAgents :
        (~state.isPaused /\ Busy(i)) ~> (state.agents[i].state = "idle" \/ StillCounting(i))

\* the same for the positive dial duration only
C39_TimedAgentsReturnToIdle ==
    \A i \in 1..MaxAgents :
        (~state.isPaused /\ Busy(i) /\ configs.call.dialDurationSeconds > 0)
            ~> (state.agents[i].state = "idle" \/ StillCounting(i))

\* under a dial duration of 0 an agent has been dialing, no time left, through
\* every minute of the run
C39_DialingForever ==
    /\ calls = MaxMinutes
    /\ lastOp = "processMinute"
    /\ configs.call.dialDurationSeconds = 0
    /\ \E i \in 1..MaxAgents :
          /\ pre.agents[i].state = "dialing"
          /\ state.agents[i].state = "dialing"
          /\ state.agents[i].stateTimeRemaining = 0

\* under the default dial duration agents went from dialing back to idle
C39_DialedAndIdleAgain ==
    /\ configs.call.dialDurationSeconds > 0
    /\ <<"dialing", "idle">> \in obs.agentChanges
    /\ <<"break", "idle">> \in obs.agentChanges

\* the facade's operations interleaved with the firings of its interval
NextFacade ==
    \/ Start
    \/ Pause
    \/ SetSpeed
    \/ GameSimulateDay
    \/ ResetGame
    \/ TimerFire

SpecFacade == Init /\ [][NextFacade]_vars

\* C40: for any interleaving of start(), pause(), setSpeed(), simulateDay() and
\* resetGame() with timer firings, at most one periodic tick timer is
\* scheduled at any time, a timer is scheduled exactly when isRunning is true,
\* and isRunning is true exactly when state.isPaused is false.
C40_OneTimerWhileRunning ==
    /\ timers <= 1
    /\ (timers > 0) <=> isRunning
    /\ isRunning <=> ~state.isPaused

\* the speed of a running game was changed: its interval was replaced by one
C40_SpeedChangedWhileRunning ==
    /\ lastOp = "setSpeed"
    /\ ~pre.isPaused
    /\ state.speedMultiplier # pre.speedMultiplier
    /\ isRunning
    /\ timers = 1

\* a running game was reset, or its day simulated: no interval is left
C40_StoppedByResetOrDay ==
    /\ lastOp \in {"resetGame", "Game.simulateDay"}
    /\ ~pre.isPaused
    /\ ~isRunning
    /\ timers = 0

\* the interval of a started game fired
C40_TimerFired ==
    /\ lastOp = "timer"
    /\ isRunning
    /\ timers = 1

====
